---- MODULE Spec2Model ----
(***************************************************************************)
(* A model of pi_brivet_main: CaptureManager (app/capture.py), the manual  *)
(* and automated still-capture workflows, and CameraManager                *)
(* (app/camera.py), the owner of the single camera.                        *)
(*                                                                         *)
(* Threads are modelled one statement at a time: every read or write of a  *)
(* shared attribute is a step of its own, because CaptureManager never     *)
(* acquires the lock it creates in __init__ and CameraManager takes its    *)
(* lock in reconfigure, in the preview-buffer store and in                 *)
(* get_preview_frame only.                                                 *)
(***************************************************************************)
EXTENDS Integers, FiniteSets, Sequences, TLC

(***************************************************************************)
(* Program constants.                                                      *)
(***************************************************************************)
MIN_CAPTURE_INTERVAL == 45
JOIN_TIMEOUT == 10
ERROR_SLEEP == 2
NoThread == 0
CAPTURE_WIDTH == 3280
CAPTURE_HEIGHT == 2464
PREVIEW_WIDTH == 640
PREVIEW_HEIGHT == 480
\* Confidence is counted in thousandths: 0.01 is 10, 0.25 is 250, 1.0 is 1000.
CONFIDENCE_MIN == 10
CONFIDENCE_MAX == 1000
DEFAULT_CONFIDENCE == 250
SLICES_MIN == 1
SLICES_MAX == 8
DEFAULT_SLICES == 2

(***************************************************************************)
(* Bounds of the model.                                                    *)
(***************************************************************************)
\* Clock readings kept apart before the origin of the clock is moved.
MaxTicks == 3
\* Largest max_captures argument tried.
MaxCapturesArg == 2
\* max_captures of the run that is followed capture by capture.
ScenarioMax == 3

\* The threads that call the public methods (request handlers).
Callers == {1, 2}
\* The Thread objects of _automated_loop.
LoopIds == {11, 12}
Threads == Callers \cup LoopIds

\* CameraManager: the thread of _capture_loop, the thread that runs the
\* lifespan of the application, and the threads that use the camera.
PreviewThread == 20
MainThread == 23
CamClients == {21, 22}
\* The event-loop thread when it runs a route of routes/live_detect.py.
LiveThread == 24
CamCallers == CamClients \cup {LiveThread}
\* the threads that iterate a _live_detection_generator, one per viewer
GenThreads == {25, 26}
CamThreads == {PreviewThread, MainThread} \cup CamCallers \cup GenThreads
\* Main-stream sizes tried: the still-capture size and two of the presets.
CaptureSize == <<CAPTURE_WIDTH, CAPTURE_HEIGHT>>
Sizes == {CaptureSize, <<1280, 1280>>, <<640, 480>>}
\* Contents of a preview frame; 0 is the empty buffer b"".
FrameData == {1, 2}
\* config.py 41-47
RESOLUTION_PRESETS ==
    ("640x480" :> <<640, 480>>) @@ ("1280x720" :> <<1280, 720>>) @@
    ("1280x1280" :> <<1280, 1280>>) @@ ("1920x1080" :> <<1920, 1080>>)
DEFAULT_LIVE_RESOLUTION == "1280x1280"
\* Values of body.resolution tried by update_live_settings: the presets, a
\* key that is no preset, and the field left out (None).
NoKey == "None"
ResolutionInputs == DOMAIN RESOLUTION_PRESETS \cup {"800x600", NoKey}

\* The clock advances in steps of a third of the cooldown.
TickStep == MIN_CAPTURE_INTERVAL \div 3
\* time.time() at construction: the epoch clock is beyond every interval tried,
\* so that no first capture waits for _last_capture_time = 0.0.
BootTime == MIN_CAPTURE_INTERVAL + TickStep
\* The clock has MaxTicks readings, BootTime the first of them.
MaxTime == BootTime + (MaxTicks - 1) * TickStep

\* Arguments tried for start_automated(interval, max_captures).
Intervals == {MIN_CAPTURE_INTERVAL - TickStep, MIN_CAPTURE_INTERVAL,
              MIN_CAPTURE_INTERVAL + TickStep}
MaxCaptureArgs == 0..MaxCapturesArg

Max(a, b) == IF a >= b THEN a ELSE b
Min(a, b) == IF b < a THEN b ELSE a
\* Values given to the confidence setter, in thousandths: below, inside and
\* above the range, with 0 and 5.0 among them.
ConfidenceInputs == {0 - 1000, 5, 5000} \cup {k * 50 : k \in 0..22}
\* Values given to the slices setter.
SliceInputs == (0 - 1)..10 \cup {20}

VARIABLES
    \* CaptureManager attributes
    mode, last_capture_time, auto_thread, auto_running, auto_interval,
    auto_max_captures, auto_captures_done, auto_next_capture_time,
    last_result, is_processing,
    \* the clock read by time.time()
    now,
    \* per thread: position, and the locals that live across steps
    pc, arg, outcome, end_time, join_target,
    \* history: whether the stop_automated in progress was issued during a run
    mid_run,
    \* CameraManager attributes
    camera, cam_lock, frame, cam_running, cam_thread, main_width, main_height,
    \* the camera hardware behind the Picamera2 handle
    hw_started, hw_size,
    \* the stream configuration last given to configure() (camera.py 73-78)
    hw_config,
    \* per camera thread: position, arguments, result, local buffer
    cam_pc, cam_arg, cam_out, buf, cam_ret,
    \* _LiveState attributes (routes/live_detect.py)
    live_active, live_resolution,
    \* the live route in progress and its body.resolution
    live_op, live_key,
    \* CaptureManager._confidence in thousandths, and _slices
    confidence, slices,
    \* the value last given to each setter; the default at construction
    conf_arg, slices_arg,
    \* per thread inside _do_capture: the confidence and the slice count given
    \* to run_detection (capture.py 191)
    det_args,
    \* per thread inside _do_capture: confidence_threshold and slice_count of
    \* its local `detection`, the Detection object built at capture.py 196-202
    \* and then given to the database session (203-205)
    detection,
    \* _LiveState.confidence in thousandths (routes/live_detect.py 33)
    live_confidence,
    \* history: stop_live was called at least once
    live_stopped

capVars == <<mode, last_capture_time, auto_thread, auto_running, auto_interval,
             auto_max_captures, auto_captures_done, auto_next_capture_time,
             last_result, is_processing>>
camVars == <<camera, cam_lock, frame, cam_running, cam_thread, main_width,
             main_height, hw_started, hw_size, hw_config, cam_pc, cam_arg,
             cam_out, buf, cam_ret, live_active, live_resolution, live_op, live_key>>
liveVars == <<live_active, live_resolution, live_op, live_key>>
\* the settings of the two managers and the history of stop_live
storedSettings == <<confidence, slices, conf_arg, slices_arg,
                    live_confidence, live_stopped>>
\* the same with the rows written from the settings
settingVars == <<storedSettings, detection>>
vars == <<capVars, now, pc, arg, outcome, end_time, join_target, mid_run, camVars,
          settingVars, det_args>>

NoArg == [interval |-> 0, max_captures |-> 0]
\* no call of run_detection in progress
NoDetection == <<0, 0>>
\* a handle that was never configured
NoConfig == [main |-> <<0, 0>>, main_format |-> "", lores |-> <<0, 0>>,
             lores_format |-> "", display |-> ""]

Init ==
    /\ mode = "manual"
    /\ last_capture_time = 0
    /\ auto_thread = NoThread
    /\ auto_running = FALSE
    /\ auto_interval = 0
    /\ auto_max_captures = 0
    /\ auto_captures_done = 0
    /\ auto_next_capture_time = 0
    /\ last_result = NoThread - 1
    /\ is_processing = FALSE
    /\ now = BootTime
    /\ pc = [t \in Threads |-> IF t \in Callers THEN "idle" ELSE "unborn"]
    /\ arg = [c \in Callers |-> NoArg]
    /\ outcome = [c \in Callers |-> "none"]
    /\ end_time = [t \in Threads |-> 0]
    /\ join_target = [c \in Callers |-> NoThread]
    /\ mid_run = [c \in Callers |-> FALSE]
    /\ camera = FALSE
    /\ cam_lock = NoThread
    /\ frame = 0
    /\ cam_running = FALSE
    /\ cam_thread = NoThread
    /\ main_width = CAPTURE_WIDTH
    /\ main_height = CAPTURE_HEIGHT
    /\ hw_started = FALSE
    /\ hw_size = <<0, 0>>
    /\ hw_config = NoConfig
    /\ cam_pc = [t \in CamThreads |->
                   IF t \in {PreviewThread} \cup GenThreads THEN "unborn" ELSE "idle"]
    /\ cam_arg = [t \in CamCallers |-> <<0, 0>>]
    /\ cam_out = [t \in CamCallers |-> "none"]
    /\ buf = 0
    /\ cam_ret = [t \in CamCallers |-> 0]
    /\ live_active = FALSE
    /\ live_resolution = DEFAULT_LIVE_RESOLUTION
    /\ live_op = "none"
    /\ live_key = NoKey
    /\ confidence = DEFAULT_CONFIDENCE
    /\ slices = DEFAULT_SLICES
    /\ conf_arg = DEFAULT_CONFIDENCE
    /\ slices_arg = DEFAULT_SLICES
    /\ det_args = [t \in Threads |-> NoDetection]
    /\ detection = [t \in Threads |-> NoDetection]
    /\ live_confidence = DEFAULT_CONFIDENCE
    /\ live_stopped = FALSE

(***************************************************************************)
(* Helpers.                                                                *)
(***************************************************************************)
Goto(t, l) == pc' = [pc EXCEPT ![t] = l]
\* A handler leaves with its result: the value returned or the exception raised.
Finish(c, res) ==
    /\ pc' = [pc EXCEPT ![c] = "done"]
    /\ outcome' = [outcome EXCEPT ![c] = res]
Unborn == {t \in LoopIds : pc[t] = "unborn"}
\* Threads whose target _automated_loop is executing.
AliveLoops == {t \in LoopIds : pc[t] \notin {"unborn", "created", "dead"}}
\* Callers inside start_automated that have not yet constructed their Thread.
Starting == {c \in Callers : pc[c] \in {"sa_mode", "sa_interval", "sa_max",
                                        "sa_done", "sa_running", "sa_thread"}}
InCapture(t) == pc[t] \in {"cap_begin", "cap_work", "cap_detect", "cap_save", "cap_commit",
                           "cap_finally_ok", "cap_finally_err"}

(***************************************************************************)
(* The conditions of capture.py, as the code writes them.                  *)
(***************************************************************************)
\* manual_capture, line 98
AutomatedActive == mode = "automated" /\ auto_running
\* a cooldown test one clock step too short
CooldownActiveShort(t) == t - last_capture_time < MIN_CAPTURE_INTERVAL - TickStep
\* manual_capture, lines 101-103
CooldownActive(t) == t - last_capture_time < MIN_CAPTURE_INTERVAL
\* an argument test that lets max_captures = 0 through
InvalidArgumentZeroMax(interval, max_captures) ==
    interval < MIN_CAPTURE_INTERVAL \/ max_captures < 0
\* start_automated, lines 115-120
InvalidArgument(interval, max_captures) ==
    interval < MIN_CAPTURE_INTERVAL \/ max_captures < 1
\* start_automated, line 121
AlreadyRunning == auto_running
\* a loop test that allows one capture more than asked for
LoopContinuesOneMore == auto_running /\ auto_captures_done <= auto_max_captures
\* _automated_loop, line 151
LoopContinues == auto_running /\ auto_captures_done < auto_max_captures
\* _automated_loop, lines 153-155
MustWait(t) == t - last_capture_time < auto_interval

(***************************************************************************)
(* manual_capture (capture.py 92-109)                                      *)
(***************************************************************************)
\* the call, and lines 98-99: the mode test; RuntimeError when an automated
\* run is active
ManualCheckMode(c) ==
    /\ pc[c] = "idle"
    /\ IF AutomatedActive
       THEN Finish(c, "ModeConflict")
       ELSE Goto(c, "mc_cool") /\ UNCHANGED outcome
    /\ UNCHANGED <<capVars, now, arg, end_time, join_target, mid_run, camVars, det_args, settingVars>>

\* lines 101-109: the cooldown test, then the call of _do_capture
ManualCheckCooldown(c) ==
    /\ pc[c] = "mc_cool"
    /\ IF CooldownActive(now)
       THEN Finish(c, "CooldownActive")
       ELSE Goto(c, "cap_begin") /\ UNCHANGED outcome
    /\ UNCHANGED <<capVars, now, arg, end_time, join_target, mid_run, camVars, det_args, settingVars>>

(***************************************************************************)
(* _do_capture (capture.py 183-216), run by callers and by loop threads    *)
(***************************************************************************)
\* line 185
CaptureBegin(t) ==
    /\ pc[t] = "cap_begin"
    /\ is_processing' = TRUE
    /\ Goto(t, "cap_work")
    /\ UNCHANGED <<mode, last_capture_time, auto_thread, auto_running,
                   auto_interval, auto_max_captures, auto_captures_done,
                   auto_next_capture_time, last_result,
                   now, arg, outcome, end_time, join_target, mid_run, camVars, det_args, settingVars>>

\* a _do_capture that gives run_detection the values of the construction
CaptureDetectDefaults(t) ==
    /\ pc[t] = "cap_work"
    /\ \/ /\ Goto(t, "cap_finally_err")
          /\ UNCHANGED det_args
       \/ /\ det_args' = [det_args EXCEPT ![t] = <<DEFAULT_CONFIDENCE, DEFAULT_SLICES>>]
          /\ Goto(t, "cap_detect")
    /\ UNCHANGED <<capVars, now, arg, outcome, end_time, join_target, mid_run,
                   camVars, settingVars>>

\* lines 188-191: capture_high_res() raises, or it returns and run_detection()
\* is called with the confidence and the slice count stored at that moment;
\* the thread is then inside run_detection, where time passes and the setters
\* can be called
CaptureDetect(t) ==
    /\ pc[t] = "cap_work"
    /\ \/ /\ Goto(t, "cap_finally_err")
          /\ UNCHANGED det_args
       \/ /\ det_args' = [det_args EXCEPT ![t] = <<confidence, slices>>]
          /\ Goto(t, "cap_detect")
    /\ UNCHANGED <<capVars, now, arg, outcome, end_time, join_target, mid_run,
                   camVars, settingVars>>

\* lines 191-203: run_detection() or SessionLocal() raises, or they return
\* and the Detection object is built from the confidence and the slice count
\* stored at that moment (199-200) and added to the session; the thread is
\* then inside the session's commit, where time passes and the setters can
\* be called
CaptureBuild(t) ==
    /\ pc[t] = "cap_detect"
    /\ \/ /\ Goto(t, "cap_finally_err")
          /\ UNCHANGED detection
       \/ /\ detection' = [detection EXCEPT ![t] = <<confidence, slices>>]
          /\ Goto(t, "cap_save")
    /\ UNCHANGED <<capVars, now, arg, outcome, end_time, join_target, mid_run,
                   camVars, det_args, storedSettings>>

\* a _do_capture that records the time before the result of its database
\* session is known
CaptureSaveStamps(t) ==
    /\ pc[t] = "cap_save"
    /\ \/ Goto(t, "cap_finally_err")
       \/ Goto(t, "cap_commit")
    /\ last_capture_time' = now
    /\ UNCHANGED <<mode, auto_thread, auto_running, auto_interval,
                   auto_max_captures, auto_captures_done,
                   auto_next_capture_time, last_result, is_processing,
                   now, arg, outcome, end_time, join_target, mid_run, camVars,
                   det_args, settingVars>>

\* lines 204-209: db.commit() raises and no row is stored, or it stores the
\* row as it was built and db.refresh() raises, or both return; db.close()
CaptureSave(t) ==
    /\ pc[t] = "cap_save"
    /\ \/ Goto(t, "cap_finally_err")
       \/ Goto(t, "cap_commit")
    /\ UNCHANGED <<capVars, now, arg, outcome, end_time, join_target, mid_run,
                   camVars, det_args, settingVars>>

\* lines 211-213
CaptureCommit(t) ==
    /\ pc[t] = "cap_commit"
    /\ last_capture_time' = now
    /\ last_result' = now
    /\ Goto(t, "cap_finally_ok")
    /\ UNCHANGED <<mode, auto_thread, auto_running, auto_interval,
                   auto_max_captures, auto_captures_done,
                   auto_next_capture_time, is_processing,
                   now, arg, outcome, end_time, join_target, mid_run, camVars, det_args, settingVars>>

\* a _do_capture that resets the flag on its return only, not in a finally
CaptureFinallyOnReturn(t) ==
    /\ pc[t] \in {"cap_finally_ok", "cap_finally_err"}
    /\ det_args' = [det_args EXCEPT ![t] = NoDetection]
    /\ detection' = [detection EXCEPT ![t] = NoDetection]
    /\ is_processing' = IF pc[t] = "cap_finally_ok" THEN FALSE ELSE is_processing
    /\ IF t \in Callers
       THEN /\ Finish(t, IF pc[t] = "cap_finally_ok" THEN "captured" ELSE "CaptureFailed")
            /\ UNCHANGED end_time
       ELSE IF pc[t] = "cap_finally_ok"
            THEN Goto(t, "lp_inc") /\ UNCHANGED <<outcome, end_time>>
            ELSE /\ Goto(t, "lp_sleep")
                 /\ end_time' = [end_time EXCEPT ![t] = now + ERROR_SLEEP]
                 /\ UNCHANGED outcome
    /\ UNCHANGED <<mode, last_capture_time, auto_thread, auto_running,
                   auto_interval, auto_max_captures, auto_captures_done,
                   auto_next_capture_time, last_result, now, arg, join_target, mid_run, camVars, storedSettings>>

\* lines 215-216, then the return or the raise reaches the caller of
\* _do_capture: manual_capture (line 109) or _automated_loop (165-174)
CaptureFinally(t) ==
    /\ pc[t] \in {"cap_finally_ok", "cap_finally_err"}
    /\ det_args' = [det_args EXCEPT ![t] = NoDetection]
    /\ detection' = [detection EXCEPT ![t] = NoDetection]
    /\ is_processing' = FALSE
    /\ IF t \in Callers
       THEN /\ Finish(t, IF pc[t] = "cap_finally_ok" THEN "captured" ELSE "CaptureFailed")
            /\ UNCHANGED end_time
       ELSE IF pc[t] = "cap_finally_ok"
            THEN Goto(t, "lp_inc") /\ UNCHANGED <<outcome, end_time>>
            ELSE /\ Goto(t, "lp_sleep")
                 /\ end_time' = [end_time EXCEPT ![t] = now + ERROR_SLEEP]
                 /\ UNCHANGED outcome
    /\ UNCHANGED <<mode, last_capture_time, auto_thread, auto_running,
                   auto_interval, auto_max_captures, auto_captures_done,
                   auto_next_capture_time, last_result, now, arg, join_target, mid_run, camVars, storedSettings>>

(***************************************************************************)
(* start_automated (capture.py 113-135)                                    *)
(***************************************************************************)
\* The call, and lines 115-122: the three tests, each raising.  A call is
\* issued only while a Thread object is left for it to construct.
StartCheckWith(c, i, m) ==
    /\ pc[c] = "idle"
    /\ Cardinality(Unborn) > Cardinality(Starting)
    /\ arg' = [arg EXCEPT ![c] = [interval |-> i, max_captures |-> m]]
    /\ IF InvalidArgument(i, m)
       THEN Finish(c, "InvalidArgument")
       ELSE IF AlreadyRunning
            THEN Finish(c, "AlreadyRunning")
            ELSE Goto(c, "sa_mode") /\ UNCHANGED outcome
    /\ UNCHANGED <<capVars, now, end_time, join_target, mid_run, camVars, det_args, settingVars>>

StartCheck(c) ==
    \E i \in Intervals, m \in MaxCaptureArgs : StartCheckWith(c, i, m)

\* line 124
StartSetMode(c) ==
    /\ pc[c] = "sa_mode"
    /\ mode' = "automated"
    /\ Goto(c, "sa_interval")
    /\ UNCHANGED <<last_capture_time, auto_thread, auto_running, auto_interval,
                   auto_max_captures, auto_captures_done,
                   auto_next_capture_time, last_result, is_processing,
                   now, arg, outcome, end_time, join_target, mid_run, camVars, det_args, settingVars>>

\* line 125
StartSetInterval(c) ==
    /\ pc[c] = "sa_interval"
    /\ auto_interval' = arg[c].interval
    /\ Goto(c, "sa_max")
    /\ UNCHANGED <<mode, last_capture_time, auto_thread, auto_running,
                   auto_max_captures, auto_captures_done,
                   auto_next_capture_time, last_result, is_processing,
                   now, arg, outcome, end_time, join_target, mid_run, camVars, det_args, settingVars>>

\* line 126
StartSetMax(c) ==
    /\ pc[c] = "sa_max"
    /\ auto_max_captures' = arg[c].max_captures
    /\ Goto(c, "sa_done")
    /\ UNCHANGED <<mode, last_capture_time, auto_thread, auto_running,
                   auto_interval, auto_captures_done,
                   auto_next_capture_time, last_result, is_processing,
                   now, arg, outcome, end_time, join_target, mid_run, camVars, det_args, settingVars>>

\* line 127
StartSetDone(c) ==
    /\ pc[c] = "sa_done"
    /\ auto_captures_done' = 0
    /\ Goto(c, "sa_running")
    /\ UNCHANGED <<mode, last_capture_time, auto_thread, auto_running,
                   auto_interval, auto_max_captures,
                   auto_next_capture_time, last_result, is_processing,
                   now, arg, outcome, end_time, join_target, mid_run, camVars, det_args, settingVars>>

\* line 128
StartSetRunning(c) ==
    /\ pc[c] = "sa_running"
    /\ auto_running' = TRUE
    /\ Goto(c, "sa_thread")
    /\ UNCHANGED <<mode, last_capture_time, auto_thread, auto_interval,
                   auto_max_captures, auto_captures_done,
                   auto_next_capture_time, last_result, is_processing,
                   now, arg, outcome, end_time, join_target, mid_run, camVars, det_args, settingVars>>

\* line 130: a new Thread object is constructed and stored
StartNewThread(c) ==
    /\ pc[c] = "sa_thread"
    /\ Unborn # {}
    /\ LET th == CHOOSE t \in Unborn : \A u \in Unborn : t <= u IN
          /\ auto_thread' = th
          /\ pc' = [pc EXCEPT ![c] = "sa_start", ![th] = "created"]
    /\ UNCHANGED <<mode, last_capture_time, auto_running, auto_interval,
                   auto_max_captures, auto_captures_done,
                   auto_next_capture_time, last_result, is_processing,
                   now, arg, outcome, end_time, join_target, mid_run, camVars, det_args, settingVars>>

\* line 131: self._auto_thread is read again and started.  None has no
\* start (AttributeError); a Thread started before raises RuntimeError.
StartThread(c) ==
    /\ pc[c] = "sa_start"
    /\ IF auto_thread # NoThread /\ pc[auto_thread] = "created"
       THEN /\ pc' = [pc EXCEPT ![c] = "done", ![auto_thread] = "lp_while"]
            /\ outcome' = [outcome EXCEPT ![c] = "started"]
       ELSE Finish(c, "ThreadError")
    /\ UNCHANGED <<capVars, now, arg, end_time, join_target, mid_run, camVars, det_args, settingVars>>

(***************************************************************************)
(* stop_automated (capture.py 137-147)                                     *)
(***************************************************************************)
\* the call, and line 139
StopClearRunning(c) ==
    /\ pc[c] = "idle"
    /\ auto_running' = FALSE
    /\ mid_run' = [mid_run EXCEPT ![c] = (mode = "automated" /\ auto_running)]
    /\ Goto(c, "st_check")
    /\ UNCHANGED <<mode, last_capture_time, auto_thread, auto_interval,
                   auto_max_captures, auto_captures_done,
                   auto_next_capture_time, last_result, is_processing,
                   now, arg, outcome, end_time, join_target, camVars, det_args, settingVars>>

\* line 140
StopCheckThread(c) ==
    /\ pc[c] = "st_check"
    /\ Goto(c, IF auto_thread # NoThread THEN "st_join" ELSE "st_mode")
    /\ UNCHANGED <<capVars, now, arg, outcome, end_time, join_target, mid_run, camVars, det_args, settingVars>>

\* line 141: self._auto_thread is read again; join(timeout=10) begins.  None
\* has no join (AttributeError); a Thread not yet started raises RuntimeError.
StopJoinBegin(c) ==
    /\ pc[c] = "st_join"
    /\ IF auto_thread # NoThread /\ pc[auto_thread] # "created"
       THEN /\ join_target' = [join_target EXCEPT ![c] = auto_thread]
            /\ end_time' = [end_time EXCEPT ![c] = now + JOIN_TIMEOUT]
            /\ Goto(c, "st_wait")
            /\ UNCHANGED outcome
       ELSE Finish(c, "ThreadError") /\ UNCHANGED <<join_target, end_time>>
    /\ UNCHANGED <<capVars, now, arg, mid_run, camVars, det_args, settingVars>>

\* line 141: join returns when the thread has ended or the timeout has passed
StopJoinEnd(c) ==
    /\ pc[c] = "st_wait"
    /\ pc[join_target[c]] = "dead" \/ now >= end_time[c]
    /\ join_target' = [join_target EXCEPT ![c] = NoThread]
    /\ end_time' = [end_time EXCEPT ![c] = 0]
    /\ Goto(c, "st_clear")
    /\ UNCHANGED <<capVars, now, arg, outcome, mid_run, camVars, det_args, settingVars>>

\* line 142
StopClearThread(c) ==
    /\ pc[c] = "st_clear"
    /\ auto_thread' = NoThread
    /\ Goto(c, "st_mode")
    /\ UNCHANGED <<mode, last_capture_time, auto_running, auto_interval,
                   auto_max_captures, auto_captures_done,
                   auto_next_capture_time, last_result, is_processing,
                   now, arg, outcome, end_time, join_target, mid_run, camVars, det_args, settingVars>>

\* line 143, and the return
StopSetMode(c) ==
    /\ pc[c] = "st_mode"
    /\ mode' = "manual"
    /\ Finish(c, "stopped")
    /\ UNCHANGED <<last_capture_time, auto_thread, auto_running, auto_interval,
                   auto_max_captures, auto_captures_done,
                   auto_next_capture_time, last_result, is_processing,
                   now, arg, end_time, join_target, mid_run, camVars, det_args, settingVars>>

\* The handler has answered; the caller is free to issue its next call.
Respond(c) ==
    /\ pc[c] = "done"
    /\ pc' = [pc EXCEPT ![c] = "idle"]
    /\ outcome' = [outcome EXCEPT ![c] = "none"]
    /\ arg' = [arg EXCEPT ![c] = NoArg]
    /\ mid_run' = [mid_run EXCEPT ![c] = FALSE]
    /\ UNCHANGED <<capVars, now, end_time, join_target, camVars, det_args, settingVars>>

(***************************************************************************)
(* _automated_loop (capture.py 149-179)                                    *)
(***************************************************************************)
\* line 151
LoopWhile(t) ==
    /\ pc[t] = "lp_while"
    /\ Goto(t, IF LoopContinues THEN "lp_cool" ELSE "lp_exit")
    /\ UNCHANGED <<capVars, now, arg, outcome, end_time, join_target, mid_run, camVars, det_args, settingVars>>

\* lines 153-159
LoopCooldown(t) ==
    /\ pc[t] = "lp_cool"
    /\ IF MustWait(now)
       THEN LET wait == auto_interval - (now - last_capture_time) IN
            /\ auto_next_capture_time' = now + wait
            /\ end_time' = [end_time EXCEPT ![t] = now + wait]
            /\ Goto(t, "lp_wait")
       ELSE /\ Goto(t, "cap_begin")
            /\ UNCHANGED <<auto_next_capture_time, end_time>>
    /\ UNCHANGED <<mode, last_capture_time, auto_thread, auto_running,
                   auto_interval, auto_max_captures, auto_captures_done,
                   last_result, is_processing, now, arg, outcome, join_target, mid_run, camVars, det_args, settingVars>>

\* a polling sleep that ends one clock step early
LoopWaitEarly(t) ==
    /\ pc[t] = "lp_wait"
    /\ now + TickStep >= end_time[t] \/ ~auto_running
    /\ Goto(t, IF auto_running THEN "cap_begin" ELSE "lp_exit")
    /\ end_time' = [end_time EXCEPT ![t] = 0]
    /\ UNCHANGED <<capVars, now, arg, outcome, join_target, mid_run, camVars, det_args, settingVars>>

\* lines 160-163: the polling sleep ends when the time has come or the run was
\* stopped; a stopped run breaks out of the loop
LoopWait(t) ==
    /\ pc[t] = "lp_wait"
    /\ now >= end_time[t] \/ ~auto_running
    /\ Goto(t, IF auto_running THEN "cap_begin" ELSE "lp_exit")
    /\ end_time' = [end_time EXCEPT ![t] = 0]
    /\ UNCHANGED <<capVars, now, arg, outcome, join_target, mid_run, camVars, det_args, settingVars>>

\* line 167
LoopIncrement(t) ==
    /\ pc[t] = "lp_inc"
    /\ auto_captures_done' = auto_captures_done + 1
    /\ Goto(t, "lp_while")
    /\ UNCHANGED <<mode, last_capture_time, auto_thread, auto_running,
                   auto_interval, auto_max_captures,
                   auto_next_capture_time, last_result, is_processing,
                   now, arg, outcome, end_time, join_target, mid_run, camVars, det_args, settingVars>>

\* a loop that gives up the run after a failed capture
LoopErrorBreak(t) ==
    /\ pc[t] = "lp_sleep"
    /\ now >= end_time[t]
    /\ Goto(t, "lp_exit")
    /\ end_time' = [end_time EXCEPT ![t] = 0]
    /\ UNCHANGED <<capVars, now, arg, outcome, join_target, mid_run, camVars, det_args, settingVars>>

\* lines 172-174: time.sleep(2) after a failed capture
LoopErrorSleep(t) ==
    /\ pc[t] = "lp_sleep"
    /\ now >= end_time[t]
    /\ Goto(t, "lp_while")
    /\ end_time' = [end_time EXCEPT ![t] = 0]
    /\ UNCHANGED <<capVars, now, arg, outcome, join_target, mid_run, camVars, det_args, settingVars>>

\* line 177
LoopExitRunning(t) ==
    /\ pc[t] = "lp_exit"
    /\ auto_running' = FALSE
    /\ Goto(t, "lp_exit_mode")
    /\ UNCHANGED <<mode, last_capture_time, auto_thread, auto_interval,
                   auto_max_captures, auto_captures_done,
                   auto_next_capture_time, last_result, is_processing,
                   now, arg, outcome, end_time, join_target, mid_run, camVars, det_args, settingVars>>

\* line 178, and the thread ends
LoopExitMode(t) ==
    /\ pc[t] = "lp_exit_mode"
    /\ mode' = "manual"
    /\ Goto(t, "dead")
    /\ UNCHANGED <<last_capture_time, auto_thread, auto_running, auto_interval,
                   auto_max_captures, auto_captures_done,
                   auto_next_capture_time, last_result, is_processing,
                   now, arg, outcome, end_time, join_target, mid_run, camVars, det_args, settingVars>>

(***************************************************************************)
(* The clock.  The code reads time.time() only in differences, so when the *)
(* clock would pass MaxTime the origin is moved instead: every stored      *)
(* reading is lowered by the same amount, and a reading that falls below   *)
(* the origin stays at it (it is then at least MaxTime old).               *)
(***************************************************************************)
Rebase(x, shift) == IF x < 0 THEN x ELSE Max(0, x - shift)

\* Where a thread lets time pass: between calls, inside the camera, detection
\* and database calls, in a sleep and in a join.  Every other position is a
\* single attribute read or write, which takes no time on this clock.
TakesTime(t) == pc[t] \in {"idle", "cap_work", "cap_detect", "cap_save", "lp_wait", "lp_sleep",
                           "st_wait", "unborn", "created", "dead"}

Tick ==
    /\ \A t \in Threads : TakesTime(t)
    /\ LET shift == Max(0, now + TickStep - MaxTime) IN
       /\ now' = now + TickStep - shift
       /\ last_capture_time' = Rebase(last_capture_time, shift)
       /\ auto_next_capture_time' = Rebase(auto_next_capture_time, shift)
       /\ last_result' = Rebase(last_result, shift)
       /\ end_time' = [t \in Threads |-> Rebase(end_time[t], shift)]
       /\ UNCHANGED <<mode, auto_thread, auto_running, auto_interval,
                      auto_max_captures, auto_captures_done, is_processing,
                      pc, arg, outcome, join_target, mid_run, camVars, det_args, settingVars>>

ManualSteps(c) == ManualCheckMode(c) \/ ManualCheckCooldown(c)

StartBody(c) ==
    \/ StartSetMode(c) \/ StartSetInterval(c) \/ StartSetMax(c)
    \/ StartSetDone(c) \/ StartSetRunning(c) \/ StartNewThread(c) \/ StartThread(c)

StartSteps(c) == StartCheck(c) \/ StartBody(c)

StopSteps(c) ==
    \/ StopClearRunning(c) \/ StopCheckThread(c) \/ StopJoinBegin(c)
    \/ StopJoinEnd(c) \/ StopClearThread(c) \/ StopSetMode(c)

LoopSteps(t) ==
    \/ LoopWhile(t) \/ LoopCooldown(t) \/ LoopWait(t) \/ LoopIncrement(t)
    \/ LoopErrorSleep(t) \/ LoopExitRunning(t) \/ LoopExitMode(t)

CaptureSteps(t) ==
    \/ CaptureBegin(t) \/ CaptureDetect(t) \/ CaptureBuild(t)
    \/ CaptureSave(t) \/ CaptureCommit(t) \/ CaptureFinally(t)

\* The routes of app/routes/capture.py are coroutines of one event loop: the
\* public methods are called from one thread, one call at a time, beside the
\* threads of _automated_loop.
Next ==
    \/ ManualSteps(1) \/ StartSteps(1) \/ StopSteps(1) \/ Respond(1)
    \/ \E t \in LoopIds : LoopSteps(t)
    \/ \E t \in {1} \cup LoopIds : CaptureSteps(t)
    \/ Tick

Spec == Init /\ [][Next]_vars

\* CaptureManager called from two threads at once: manual captures and
\* starts of automated runs, issued concurrently.
RaceNext ==
    \/ \E c \in Callers : ManualSteps(c) \/ StartSteps(c) \/ Respond(c)
    \/ \E t \in LoopIds : LoopSteps(t)
    \/ \E t \in Threads : CaptureSteps(t)
    \/ Tick

RaceSpec == Init /\ [][RaceNext]_vars

\* Automated runs that nobody stops: one thread starts runs and issues
\* manual captures, and stop_automated is never called.  A call in progress
\* and a started loop thread keep being scheduled, the clock keeps
\* advancing, and a capture that is retried for ever succeeds at some time.
RunNext ==
    \/ ManualSteps(1) \/ StartSteps(1) \/ Respond(1)
    \/ \E t \in LoopIds : LoopSteps(t)
    \/ \E t \in {1} \cup LoopIds : CaptureSteps(t)
    \/ Tick

\* the outcomes of the three steps in which every call returns
FrameCaptured(t) == CaptureDetect(t) /\ pc'[t] = "cap_detect"
RowBuilt(t) == CaptureBuild(t) /\ pc'[t] = "cap_save"
CaptureSucceeds(t) == CaptureSave(t) /\ pc'[t] = "cap_commit"

RunFairness ==
    /\ WF_vars(pc[1] # "idle" /\ (ManualSteps(1) \/ StartSteps(1) \/ Respond(1)
                                   \/ CaptureSteps(1)))
    /\ \A t \in LoopIds : WF_vars(LoopSteps(t) \/ CaptureSteps(t))
    /\ \A t \in LoopIds : SF_vars(FrameCaptured(t))
    /\ \A t \in LoopIds : SF_vars(RowBuilt(t))
    /\ \A t \in LoopIds : SF_vars(CaptureSucceeds(t))
    /\ SF_vars(Tick)

RunSpec == Init /\ [][RunNext]_vars /\ RunFairness


(***************************************************************************)
(* One automated run followed on the clock: start_automated(45, ScenarioMax)*)
(* is called at BootTime with no capture made before, every capture of the *)
(* run succeeds, a capture takes no time, and a sleeping loop wakes when   *)
(* its time has come.  manual_capture may be called at any moment.  The    *)
(* clock is not re-based here: it runs to the end of the run.              *)
(***************************************************************************)
ScenarioEnd == BootTime + (ScenarioMax - 1) * MIN_CAPTURE_INTERVAL

ScenarioStart ==
    /\ now = BootTime /\ last_capture_time = 0
    /\ StartCheckWith(1, MIN_CAPTURE_INTERVAL, ScenarioMax)

ScenarioTick ==
    /\ \A t \in Threads : TakesTime(t) /\ pc[t] \notin {"cap_work", "cap_detect", "cap_save"}
    /\ \A t \in LoopIds : pc[t] = "lp_wait" => now < end_time[t]
    /\ now < ScenarioEnd + TickStep
    /\ now' = now + TickStep
    /\ UNCHANGED <<capVars, pc, arg, outcome, end_time, join_target, mid_run,
                   camVars, det_args, settingVars>>

ScenarioNext ==
    \/ ScenarioStart \/ StartBody(1) \/ ManualSteps(1) \/ Respond(1)
    \/ \E t \in LoopIds :
          \/ LoopWhile(t) \/ LoopCooldown(t) \/ LoopWait(t) \/ LoopIncrement(t)
          \/ LoopExitRunning(t) \/ LoopExitMode(t)
          \/ FrameCaptured(t) \/ RowBuilt(t) \/ CaptureSucceeds(t)
    \/ CaptureDetect(1) \/ CaptureBuild(1) \/ CaptureSave(1)
    \/ \E t \in {1} \cup LoopIds :
          CaptureBegin(t) \/ CaptureCommit(t) \/ CaptureFinally(t)
    \/ ScenarioTick

ScenarioSpec == Init /\ [][ScenarioNext]_vars

(***************************************************************************)
(* Runs that are stopped and started again.  The sleeps of _automated_loop *)
(* are polls of half a second, far shorter than a step of the clock: a     *)
(* loop whose wait has ended, by the time or by auto_running, leaves it    *)
(* before the clock moves.  A Thread object that has ended and that        *)
(* nothing refers to is gone, and start_automated constructs a new one.    *)
(***************************************************************************)
\* lines 130 and 142: the ended Thread is referred to by no attribute and no
\* join, so a later threading.Thread(...) is a new object
ThreadCollected(t) ==
    /\ pc[t] = "dead"
    /\ auto_thread # t
    /\ \A c \in Callers : join_target[c] # t
    /\ Goto(t, "unborn")
    /\ UNCHANGED <<capVars, now, arg, outcome, end_time, join_target, mid_run,
                   camVars, det_args, settingVars>>

\* lines 160-161 and 174: time.sleep(0.5) in the wait, time.sleep(2) after an
\* error; a sleeper whose condition has ended wakes within the clock step
PollTick ==
    /\ \A t \in LoopIds :
          /\ pc[t] = "lp_wait" => (auto_running /\ now < end_time[t])
          /\ pc[t] = "lp_sleep" => now < end_time[t]
    /\ Tick

PollNext ==
    \/ StartCheckWith(1, MIN_CAPTURE_INTERVAL, MaxCapturesArg)
    \/ StartBody(1) \/ StopSteps(1) \/ Respond(1)
    \/ \E t \in LoopIds : LoopSteps(t) \/ CaptureSteps(t) \/ ThreadCollected(t)
    \/ PollTick

PollSpec == Init /\ [][PollNext]_vars

(***************************************************************************)
(* CameraManager (camera.py).  capVars and the clock are left alone.       *)
(***************************************************************************)
capSide == <<capVars, now, pc, arg, outcome, end_time, join_target, mid_run,
             settingVars, det_args>>
\* capSide without the attributes and the history written by the live routes
capState == <<capVars, now, pc, arg, outcome, end_time, join_target, mid_run,
              det_args, confidence, slices, conf_arg, slices_arg, detection>>

CamGoto(t, l) == cam_pc' = [cam_pc EXCEPT ![t] = l]
CamFinish(t, res) ==
    /\ cam_pc' = [cam_pc EXCEPT ![t] = "done"]
    /\ cam_out' = [cam_out EXCEPT ![t] = res]

\* A thread is inside a call of the Picamera2 handle that uses the sensor:
\* capture_file (112, 146), capture_array (134), or the stop, configure and
\* start of reconfigure (94-96).
InPreviewCapture(t) == cam_pc[t] = "pv_capture"
InHighRes(t) == cam_pc[t] = "hr_capture"
InMainFrame(t) == cam_pc[t] = "mf_capture"
InReconfigure(t) == cam_pc[t] \in {"rc_stop", "rc_apply", "rc_start"}
OnHardware(t) ==
    InPreviewCapture(t) \/ InHighRes(t) \/ InMainFrame(t) \/ InReconfigure(t)

\* The requests are served between the start and the stop of the lifespan
\* (main.py 28-38); a call made before start() finds no camera.
Serving == cam_pc[MainThread] # "cs_thread"

\* lines 87, 132 and 141: `if not self._camera`
NotInitializedAfterStop == ~camera /\ cam_pc[MainThread] = "stopped"
NotInitialized == ~camera

\* an _apply_config that gives the preview stream the size of the main one
ApplyConfigBothStreams(main_w, main_h) ==
    [main |-> <<main_w, main_h>>, main_format |-> "BGR888",
     lores |-> <<main_w, main_h>>, lores_format |-> "YUV420",
     display |-> "lores"]
\* _apply_config, lines 73-77: the configuration given to configure()
ApplyConfig(main_w, main_h) ==
    [main |-> <<main_w, main_h>>, main_format |-> "BGR888",
     lores |-> <<PREVIEW_WIDTH, PREVIEW_HEIGHT>>, lores_format |-> "YUV420",
     display |-> "lores"]

\* start, lines 50-52: the handle is made, configured and started
CamStartHardware ==
    /\ cam_pc[MainThread] = "idle"
    /\ \A t \in CamClients : cam_pc[t] = "idle"
    /\ camera' = TRUE
    /\ hw_size' = <<main_width, main_height>>
    /\ hw_config' = ApplyConfig(main_width, main_height)
    /\ hw_started' = TRUE
    /\ CamGoto(MainThread, "cs_thread")
    /\ UNCHANGED <<cam_lock, frame, cam_running, cam_thread, main_width,
                   main_height, cam_arg, cam_out, buf, capSide, cam_ret, liveVars>>

\* start, lines 50-52, when the hardware fails: Picamera2() raises and no
\* handle is stored, or the handle is stored and its configure or its start
\* raises.  The exception leaves start before line 54.
CamStartFails ==
    /\ cam_pc[MainThread] = "idle"
    /\ \A t \in CamClients : cam_pc[t] = "idle"
    /\ \E handle \in BOOLEAN :
          /\ camera' = handle
          /\ \/ UNCHANGED <<hw_size, hw_config>>
             \/ /\ handle
                /\ hw_size' = <<main_width, main_height>>
                /\ hw_config' = ApplyConfig(main_width, main_height)
    /\ CamGoto(MainThread, "start_failed")
    /\ UNCHANGED <<cam_lock, frame, cam_running, cam_thread, main_width,
                   main_height, hw_started, cam_arg, cam_out, buf, capSide,
                   cam_ret, liveVars>>

\* start, lines 54-56: the preview thread is started
CamStartThread ==
    /\ cam_pc[MainThread] = "cs_thread"
    /\ cam_running' = TRUE
    /\ cam_thread' = PreviewThread
    /\ cam_pc' = [cam_pc EXCEPT ![MainThread] = "started",
                                ![PreviewThread] = "pv_while"]
    /\ UNCHANGED <<camera, cam_lock, frame, main_width, main_height,
                   hw_started, hw_size, hw_config, cam_arg, cam_out, buf, capSide, cam_ret, liveVars>>

\* _capture_loop, line 109
PreviewWhile ==
    /\ cam_pc[PreviewThread] = "pv_while"
    /\ CamGoto(PreviewThread, IF cam_running /\ camera THEN "pv_capture" ELSE "dead")
    /\ UNCHANGED <<camera, cam_lock, frame, cam_running, cam_thread, main_width,
                   main_height, hw_started, hw_size, hw_config, cam_arg, cam_out, buf,
                   capSide, cam_ret, liveVars>>

\* a preview loop that a failed capture_file ends
PreviewCaptureFatal ==
    /\ cam_pc[PreviewThread] = "pv_capture"
    /\ \/ /\ hw_started
          /\ \E d \in FrameData : buf' = d
          /\ CamGoto(PreviewThread, "pv_lock")
       \/ /\ UNCHANGED buf
          /\ CamGoto(PreviewThread, "dead")
    /\ UNCHANGED <<camera, cam_lock, frame, cam_running, cam_thread, main_width,
                   main_height, hw_started, hw_size, hw_config, cam_arg, cam_out, capSide, cam_ret, liveVars>>

\* lines 111-112: capture_file into the local buffer, with no lock held; it
\* raises when the hardware is stopped, and may raise at any time
PreviewCapture ==
    /\ cam_pc[PreviewThread] = "pv_capture"
    /\ \/ /\ hw_started
          /\ \E d \in FrameData : buf' = d
          /\ CamGoto(PreviewThread, "pv_lock")
       \/ /\ UNCHANGED buf
          /\ CamGoto(PreviewThread, "pv_sleep")
    /\ UNCHANGED <<camera, cam_lock, frame, cam_running, cam_thread, main_width,
                   main_height, hw_started, hw_size, hw_config, cam_arg, cam_out, capSide, cam_ret, liveVars>>

\* line 113: the lock is taken
PreviewLock ==
    /\ cam_pc[PreviewThread] = "pv_lock"
    /\ cam_lock = NoThread
    /\ cam_lock' = PreviewThread
    /\ CamGoto(PreviewThread, "pv_store")
    /\ UNCHANGED <<camera, frame, cam_running, cam_thread, main_width,
                   main_height, hw_started, hw_size, hw_config, cam_arg, cam_out, buf,
                   capSide, cam_ret, liveVars>>

\* line 114, and the lock is released
PreviewStore ==
    /\ cam_pc[PreviewThread] = "pv_store"
    /\ frame' = buf
    /\ cam_lock' = NoThread
    /\ CamGoto(PreviewThread, "pv_sleep")
    /\ UNCHANGED <<camera, cam_running, cam_thread, main_width, main_height,
                   hw_started, hw_size, hw_config, cam_arg, cam_out, buf, capSide, cam_ret, liveVars>>

\* lines 115 and 118: the sleep after a frame or after an error
PreviewSleep ==
    /\ cam_pc[PreviewThread] = "pv_sleep"
    /\ buf' = 0
    /\ CamGoto(PreviewThread, "pv_while")
    /\ UNCHANGED <<camera, cam_lock, frame, cam_running, cam_thread, main_width,
                   main_height, hw_started, hw_size, hw_config, cam_arg, cam_out, capSide, cam_ret, liveVars>>

\* capture_high_res, lines 141-142, and the call of capture_file at 146
HighResCall(t) ==
    /\ cam_pc[t] = "idle" /\ Serving
    /\ IF NotInitialized
       THEN CamFinish(t, "NotInitialized")
       ELSE CamGoto(t, "hr_capture") /\ UNCHANGED cam_out
    /\ UNCHANGED <<camera, cam_lock, frame, cam_running, cam_thread, main_width,
                   main_height, hw_started, hw_size, hw_config, cam_arg, buf, capSide, cam_ret, liveVars>>

\* line 146-148: capture_file returns or raises
HighResReturn(t) ==
    /\ cam_pc[t] = "hr_capture"
    /\ \/ hw_started /\ CamFinish(t, "path")
       \/ CamFinish(t, "HardwareError")
    /\ UNCHANGED <<camera, cam_lock, frame, cam_running, cam_thread, main_width,
                   main_height, hw_started, hw_size, hw_config, cam_arg, buf, capSide, cam_ret, liveVars>>

\* capture_main_frame_array, lines 132-133, and the call of capture_array
MainFrameCall(t) ==
    /\ cam_pc[t] = "idle" /\ Serving
    /\ IF NotInitialized
       THEN CamFinish(t, "NotInitialized")
       ELSE CamGoto(t, "mf_capture") /\ UNCHANGED cam_out
    /\ UNCHANGED <<camera, cam_lock, frame, cam_running, cam_thread, main_width,
                   main_height, hw_started, hw_size, hw_config, cam_arg, buf, capSide, cam_ret, liveVars>>

\* line 134: capture_array returns or raises
MainFrameReturn(t) ==
    /\ cam_pc[t] = "mf_capture"
    /\ \/ hw_started /\ CamFinish(t, "array")
       \/ CamFinish(t, "HardwareError")
    /\ UNCHANGED <<camera, cam_lock, frame, cam_running, cam_thread, main_width,
                   main_height, hw_started, hw_size, hw_config, cam_arg, buf, capSide, cam_ret, liveVars>>

\* a size test that never finds the size unchanged
SizeChangesAlways(w, h) == w # main_width \/ w = main_width
\* reconfigure, line 89
SizeChanges(w, h) == ~(w = main_width /\ h = main_height)

\* reconfigure(sz), lines 87-90: the two tests
ReconfigureEnter(t, sz) ==
    /\ cam_arg' = [cam_arg EXCEPT ![t] = sz]
    /\ IF NotInitialized
       THEN CamFinish(t, "NotInitialized")
       ELSE IF SizeChanges(sz[1], sz[2])
            THEN CamGoto(t, "rc_lock") /\ UNCHANGED cam_out
            ELSE CamFinish(t, "unchanged")

\* reconfigure called by a client thread
ReconfigureCall(t) ==
    /\ cam_pc[t] = "idle" /\ Serving
    /\ \E sz \in Sizes : ReconfigureEnter(t, sz)
    /\ UNCHANGED <<camera, cam_lock, frame, cam_running, cam_thread, main_width,
                   main_height, hw_started, hw_size, hw_config, buf, capSide, cam_ret, liveVars>>

\* line 93: the lock is taken
ReconfigureLock(t) ==
    /\ cam_pc[t] = "rc_lock"
    /\ cam_lock = NoThread
    /\ cam_lock' = t
    /\ CamGoto(t, "rc_stop")
    /\ UNCHANGED <<camera, frame, cam_running, cam_thread, main_width,
                   main_height, hw_started, hw_size, hw_config, cam_arg, cam_out, buf,
                   capSide, cam_ret, liveVars>>

\* An exception inside the with block releases the lock and reaches the caller.
ReconfigureRaise(t) ==
    /\ cam_lock' = NoThread
    /\ CamFinish(t, "HardwareError")

\* line 94
ReconfigureStop(t) ==
    /\ cam_pc[t] = "rc_stop"
    /\ \/ /\ hw_started' = FALSE
          /\ CamGoto(t, "rc_apply")
          /\ UNCHANGED <<cam_lock, cam_out>>
       \/ /\ UNCHANGED hw_started
          /\ ReconfigureRaise(t)
    /\ UNCHANGED <<camera, frame, cam_running, cam_thread, main_width,
                   main_height, hw_size, hw_config, cam_arg, buf, capSide, cam_ret, liveVars>>

\* line 95, _apply_config (71-78)
ReconfigureApply(t) ==
    /\ cam_pc[t] = "rc_apply"
    /\ \/ /\ hw_size' = cam_arg[t]
          /\ hw_config' = ApplyConfig(cam_arg[t][1], cam_arg[t][2])
          /\ CamGoto(t, "rc_start")
          /\ UNCHANGED <<cam_lock, cam_out>>
       \/ /\ UNCHANGED <<hw_size, hw_config>>
          /\ ReconfigureRaise(t)
    /\ UNCHANGED <<camera, frame, cam_running, cam_thread, main_width,
                   main_height, hw_started, cam_arg, buf, capSide, cam_ret, liveVars>>

\* line 96
ReconfigureStart(t) ==
    /\ cam_pc[t] = "rc_start"
    /\ \/ /\ hw_started' = TRUE
          /\ CamGoto(t, "rc_store")
          /\ UNCHANGED <<cam_lock, cam_out>>
       \/ /\ UNCHANGED hw_started
          /\ ReconfigureRaise(t)
    /\ UNCHANGED <<camera, frame, cam_running, cam_thread, main_width,
                   main_height, hw_size, hw_config, cam_arg, buf, capSide, cam_ret, liveVars>>

\* lines 97-98, and the lock is released
ReconfigureStore(t) ==
    /\ cam_pc[t] = "rc_store"
    /\ main_width' = cam_arg[t][1]
    /\ main_height' = cam_arg[t][2]
    /\ cam_lock' = NoThread
    /\ CamFinish(t, "reconfigured")
    /\ UNCHANGED <<camera, frame, cam_running, cam_thread, hw_started, hw_size, hw_config,
                   cam_arg, buf, capSide, cam_ret, liveVars>>

\* The call has returned; the thread is free for its next call.
CamRespond(t) ==
    /\ cam_pc[t] = "done"
    /\ cam_pc' = [cam_pc EXCEPT ![t] = "idle"]
    /\ cam_out' = [cam_out EXCEPT ![t] = "none"]
    /\ cam_arg' = [cam_arg EXCEPT ![t] = <<0, 0>>]
    /\ cam_ret' = [cam_ret EXCEPT ![t] = 0]
    /\ UNCHANGED <<camera, cam_lock, frame, cam_running, cam_thread, main_width,
                   main_height, hw_started, hw_size, hw_config, buf, capSide, liveVars>>

\* get_preview_frame, line 124: the lock is taken
PreviewFrameCall(t) ==
    /\ cam_pc[t] = "idle" /\ Serving
    /\ cam_lock = NoThread
    /\ cam_lock' = t
    /\ CamGoto(t, "gp_read")
    /\ UNCHANGED <<camera, frame, cam_running, cam_thread, main_width,
                   main_height, hw_started, hw_size, hw_config, cam_arg, cam_out, buf,
                   capSide, cam_ret, liveVars>>

\* a get_preview_frame that hands out the frame being acquired
PreviewFrameReturnBuffer(t) ==
    /\ cam_pc[t] = "gp_read"
    /\ cam_ret' = [cam_ret EXCEPT ![t] = buf]
    /\ cam_lock' = NoThread
    /\ CamFinish(t, "frame")
    /\ UNCHANGED <<camera, frame, cam_running, cam_thread, main_width,
                   main_height, hw_started, hw_size, hw_config, cam_arg, buf, capSide,
                   liveVars>>

\* line 125: self._frame is returned, and the lock is released
PreviewFrameReturn(t) ==
    /\ cam_pc[t] = "gp_read"
    /\ cam_ret' = [cam_ret EXCEPT ![t] = frame]
    /\ cam_lock' = NoThread
    /\ CamFinish(t, "frame")
    /\ UNCHANGED <<camera, frame, cam_running, cam_thread, main_width,
                   main_height, hw_started, hw_size, hw_config, cam_arg, buf, capSide,
                   liveVars>>

\* stop, line 62
CamStopClearRunning ==
    /\ cam_pc[MainThread] = "started"
    /\ cam_running' = FALSE
    /\ CamGoto(MainThread, "cx_join")
    /\ UNCHANGED <<camera, cam_lock, frame, cam_thread, main_width, main_height,
                   hw_started, hw_size, hw_config, cam_arg, cam_out, buf, capSide, cam_ret,
                   liveVars>>

\* stop, line 62, called where the lifespan does not call it: before start(),
\* after a start() that failed, or after a stop()
CamStopCall ==
    /\ cam_pc[MainThread] \in {"idle", "start_failed", "stopped", "stop_failed"}
    /\ cam_running' = FALSE
    /\ CamGoto(MainThread, "cx_join")
    /\ UNCHANGED <<camera, cam_lock, frame, cam_thread, main_width, main_height,
                   hw_started, hw_size, hw_config, cam_arg, cam_out, buf, capSide, cam_ret,
                   liveVars>>

\* lines 63-64: with no thread there is nothing to join; join(timeout=5)
\* returns when the preview thread has ended or the five seconds have passed,
\* which they may at any moment
CamStopJoin ==
    /\ cam_pc[MainThread] = "cx_join"
    /\ CamGoto(MainThread, "cx_hw")
    /\ UNCHANGED <<camera, cam_lock, frame, cam_running, cam_thread, main_width,
                   main_height, hw_started, hw_size, hw_config, cam_arg, cam_out, buf,
                   capSide, cam_ret, liveVars>>

\* lines 65-66: with no handle stop returns; self._camera.stop() may raise,
\* and the exception leaves stop
CamStopHardware ==
    /\ cam_pc[MainThread] = "cx_hw"
    /\ IF camera
       THEN \/ hw_started' = FALSE /\ CamGoto(MainThread, "cx_close")
            \/ UNCHANGED hw_started /\ CamGoto(MainThread, "stop_failed")
       ELSE UNCHANGED hw_started /\ CamGoto(MainThread, "stopped")
    /\ UNCHANGED <<camera, cam_lock, frame, cam_running, cam_thread, main_width,
                   main_height, hw_size, hw_config, cam_arg, cam_out, buf, capSide, cam_ret,
                   liveVars>>

\* lines 67-68: close() returns and the handle is dropped, or close() raises
\* and the exception leaves stop with the handle kept
CamStopClose ==
    /\ cam_pc[MainThread] = "cx_close"
    /\ \/ camera' = FALSE /\ CamGoto(MainThread, "stopped")
       \/ UNCHANGED camera /\ CamGoto(MainThread, "stop_failed")
    /\ UNCHANGED <<cam_lock, frame, cam_running, cam_thread, main_width,
                   main_height, hw_started, hw_size, hw_config, cam_arg, cam_out, buf,
                   capSide, cam_ret, liveVars>>

CamNext ==
    \/ CamStartHardware \/ CamStartThread
    \/ CamStopClearRunning \/ CamStopJoin \/ CamStopHardware \/ CamStopClose
    \/ PreviewWhile \/ PreviewCapture \/ PreviewLock \/ PreviewStore \/ PreviewSleep
    \/ \E t \in CamClients :
          \/ HighResCall(t) \/ HighResReturn(t)
          \/ MainFrameCall(t) \/ MainFrameReturn(t)
          \/ ReconfigureCall(t) \/ ReconfigureLock(t) \/ ReconfigureStop(t)
          \/ ReconfigureApply(t) \/ ReconfigureStart(t) \/ ReconfigureStore(t)
          \/ PreviewFrameCall(t) \/ PreviewFrameReturn(t)
          \/ CamRespond(t)

CamSpec == Init /\ [][CamNext]_vars

(***************************************************************************)
(* The live session (routes/live_detect.py).  The routes are coroutines    *)
(* that never await: the event loop runs each of them to its end before it *)
(* takes the next request, so one thread, LiveThread, runs them all.       *)
(***************************************************************************)
(***************************************************************************)
(* The preview loop beside one client that reconfigures and reads the      *)
(* preview.  A thread that can take a step takes one; a capture_file on    *)
(* hardware that has been started returns a frame at some time, and the    *)
(* loop gets the lock at some time when it is free again and again.        *)
(***************************************************************************)
PreviewCaptured == PreviewCapture /\ cam_pc'[PreviewThread] = "pv_lock"

PreviewClient(t) ==
    \/ ReconfigureCall(t) \/ ReconfigureLock(t) \/ ReconfigureStop(t)
    \/ ReconfigureApply(t) \/ ReconfigureStart(t) \/ ReconfigureStore(t)
    \/ PreviewFrameCall(t) \/ PreviewFrameReturn(t)
    \/ CamRespond(t)

PreviewLoop ==
    PreviewWhile \/ PreviewCapture \/ PreviewLock \/ PreviewStore \/ PreviewSleep

PreviewNext ==
    \/ CamStartHardware \/ CamStartThread
    \/ CamStopClearRunning \/ CamStopJoin \/ CamStopHardware \/ CamStopClose
    \/ PreviewLoop
    \/ PreviewClient(21)

PreviewFairness ==
    /\ WF_vars(PreviewLoop)
    /\ SF_vars(PreviewCaptured)
    /\ SF_vars(PreviewLock)
    /\ WF_vars(cam_pc[21] # "idle" /\ PreviewClient(21))

PreviewSpec == Init /\ [][PreviewNext]_vars /\ PreviewFairness

(***************************************************************************)
(* The lifecycle of CameraManager: start() succeeds or fails, and stop()   *)
(* is called in any state.                                                 *)
(***************************************************************************)
LifeNext ==
    \/ CamStartHardware \/ CamStartFails \/ CamStartThread
    \/ CamStopClearRunning \/ CamStopCall
    \/ CamStopJoin \/ CamStopHardware \/ CamStopClose
    \/ PreviewLoop

LifeSpec == Init /\ [][LifeNext]_vars

camAttrs == <<camera, cam_lock, frame, cam_running, cam_thread, main_width,
              main_height, hw_started, hw_size, hw_config, buf>>

\* Requests are served between the startup and the shutdown of the lifespan.
LiveServing == cam_pc[MainThread] = "started"
LiveIdle == cam_pc[LiveThread] = "idle" /\ LiveServing

\* The route returns res, or lets the exception of reconfigure through.
LiveFinish(res) ==
    /\ cam_pc' = [cam_pc EXCEPT ![LiveThread] = "done"]
    /\ live_op' = res

\* reconfigure has returned to the route that called it.
Reconfigured(op) ==
    /\ cam_pc[LiveThread] = "done" /\ live_op = op
    /\ cam_out[LiveThread] \in {"reconfigured", "unchanged"}

\* reconfigure has raised inside the route that called it.
ReconfigureFailed(op) ==
    /\ cam_pc[LiveThread] = "done" /\ live_op = op
    /\ cam_out[LiveThread] \in {"NotInitialized", "HardwareError"}

\* live_feed, lines 104-109
LiveFeed ==
    /\ LiveIdle
    /\ live_active' = TRUE
    /\ LiveFinish("feed")
    /\ UNCHANGED <<camAttrs, cam_arg, cam_out, cam_ret, live_resolution,
                   live_key, capSide>>

\* a start test that holds only for the default resolution
LiveAlreadyActiveAtDefault ==
    live_active /\ live_resolution = DEFAULT_LIVE_RESOLUTION
\* start_live, line 115
LiveAlreadyActive == live_active

\* start_live, lines 115-116
LiveStartCheck ==
    /\ LiveIdle
    /\ IF LiveAlreadyActive
       THEN LiveFinish("AlreadyActive")
       ELSE CamGoto(LiveThread, "ls_reconf") /\ live_op' = "start"
    /\ UNCHANGED <<camAttrs, cam_arg, cam_out, cam_ret, live_active,
                   live_resolution, live_key, capSide>>

\* lines 119-121: the preset is looked up and reconfigure is called
LiveStartReconfigure ==
    /\ cam_pc[LiveThread] = "ls_reconf"
    /\ IF live_resolution \in DOMAIN RESOLUTION_PRESETS
       THEN ReconfigureEnter(LiveThread, RESOLUTION_PRESETS[live_resolution])
       ELSE /\ cam_pc' = [cam_pc EXCEPT ![LiveThread] = "done"]
            /\ cam_out' = [cam_out EXCEPT ![LiveThread] = "unchanged"]
            /\ UNCHANGED cam_arg
    /\ UNCHANGED <<camAttrs, cam_ret, liveVars, capSide>>

\* lines 123-125
LiveStartActivate ==
    /\ Reconfigured("start")
    /\ live_active' = TRUE
    /\ live_op' = "started"
    /\ UNCHANGED <<camAttrs, cam_pc, cam_arg, cam_out, cam_ret,
                   live_resolution, live_key, capSide>>

\* a stop_live that leaves the resolution of the camera as it is
LiveStopNoReconfigure ==
    /\ cam_pc[LiveThread] = "lx_reconf"
    /\ cam_pc' = [cam_pc EXCEPT ![LiveThread] = "done"]
    /\ cam_out' = [cam_out EXCEPT ![LiveThread] = "unchanged"]
    /\ UNCHANGED <<camAttrs, cam_arg, cam_ret, liveVars, capSide>>

\* stop_live, line 131
LiveStopClear ==
    /\ LiveIdle
    /\ live_active' = FALSE
    /\ live_stopped' = TRUE
    /\ live_op' = "stop"
    /\ CamGoto(LiveThread, "lx_reconf")
    /\ UNCHANGED <<camAttrs, cam_arg, cam_out, cam_ret, live_resolution,
                   live_key, capState, live_confidence>>

\* lines 134-135
LiveStopReconfigure ==
    /\ cam_pc[LiveThread] = "lx_reconf"
    /\ ReconfigureEnter(LiveThread, CaptureSize)
    /\ UNCHANGED <<camAttrs, cam_ret, liveVars, capSide>>

\* lines 137-138
LiveStopReturn ==
    /\ Reconfigured("stop")
    /\ live_op' = "stopped"
    /\ UNCHANGED <<camAttrs, cam_pc, cam_arg, cam_out, cam_ret, live_active,
                   live_resolution, live_key, capSide>>

\* a resolution test that lets every key through
InvalidResolutionNever(k) == k = NoKey /\ k \notin DOMAIN RESOLUTION_PRESETS
\* update_live_settings, line 165
InvalidResolution(k) == k \notin DOMAIN RESOLUTION_PRESETS

\* body.confidence is None
NoConfidence == 0
\* the values of body.confidence that pass the validation of
\* LiveSettingsUpdate (line 48) and are given to the route
LiveConfidenceInputs == {NoConfidence, DEFAULT_CONFIDENCE, 2 * DEFAULT_CONFIDENCE}

\* update_live_settings, lines 160-169, for body.confidence = c and
\* body.resolution = k: the confidence is stored first, then the key is tested
LiveUpdateWith(c, k) ==
    /\ LiveIdle
    /\ live_confidence' = IF c = NoConfidence THEN live_confidence ELSE c
    /\ live_key' = k
    /\ IF k = NoKey
       THEN LiveFinish("updated")
       ELSE IF InvalidResolution(k)
            THEN LiveFinish("InvalidResolution")
            ELSE CamGoto(LiveThread, "lu_store") /\ live_op' = "update"
    /\ UNCHANGED <<camAttrs, cam_arg, cam_out, cam_ret, live_active,
                   live_resolution, capState, live_stopped>>

\* update_live_settings called with a resolution only
LiveUpdateCheck == \E k \in ResolutionInputs : LiveUpdateWith(NoConfidence, k)

\* update_live_settings called with a confidence, a resolution, or both
LiveUpdateRequest ==
    \E c \in LiveConfidenceInputs, k \in ResolutionInputs : LiveUpdateWith(c, k)

\* lines 170-171
LiveUpdateStore ==
    /\ cam_pc[LiveThread] = "lu_store"
    /\ live_resolution' = live_key
    /\ CamGoto(LiveThread, "lu_active")
    /\ UNCHANGED <<camAttrs, cam_arg, cam_out, cam_ret, live_active, live_op,
                   live_key, capSide>>

\* an update_live_settings that reconfigures whether the session is active
\* or not
LiveUpdateReconfigureAlways ==
    /\ cam_pc[LiveThread] = "lu_active"
    /\ ReconfigureEnter(LiveThread, RESOLUTION_PRESETS[live_key])
    /\ live_op' = live_op
    /\ UNCHANGED <<camAttrs, cam_ret, live_active, live_resolution, live_key,
                   capSide>>

\* lines 174-178: reconfigure is called when the session is active
LiveUpdateReconfigure ==
    /\ cam_pc[LiveThread] = "lu_active"
    /\ IF live_active
       THEN /\ ReconfigureEnter(LiveThread, RESOLUTION_PRESETS[live_key])
            /\ UNCHANGED live_op
       ELSE LiveFinish("updated") /\ UNCHANGED <<cam_arg, cam_out>>
    /\ UNCHANGED <<camAttrs, cam_ret, live_active, live_resolution, live_key,
                   capSide>>

\* line 178, after reconfigure
LiveUpdateReturn ==
    /\ Reconfigured("update")
    /\ live_op' = "updated"
    /\ UNCHANGED <<camAttrs, cam_pc, cam_arg, cam_out, cam_ret, live_active,
                   live_resolution, live_key, capSide>>

\* The exception of reconfigure leaves the route (lines 121, 135, 176).
LiveRaise ==
    /\ \E op \in {"start", "stop", "update"} : ReconfigureFailed(op)
    /\ live_op' = "raised"
    /\ UNCHANGED <<camAttrs, cam_pc, cam_arg, cam_out, cam_ret, live_active,
                   live_resolution, live_key, capSide>>

\* Results with which a route ends.
LiveResults == {"feed", "AlreadyActive", "started", "stopped", "updated",
                "InvalidResolution", "raised"}

\* The response is sent; the event loop takes the next request.
LiveRespond ==
    /\ cam_pc[LiveThread] = "done" /\ live_op \in LiveResults
    /\ cam_pc' = [cam_pc EXCEPT ![LiveThread] = "idle"]
    /\ cam_out' = [cam_out EXCEPT ![LiveThread] = "none"]
    /\ cam_arg' = [cam_arg EXCEPT ![LiveThread] = <<0, 0>>]
    /\ live_op' = "none"
    /\ live_key' = NoKey
    /\ UNCHANGED <<camAttrs, cam_ret, live_active, live_resolution, capSide>>

LiveSteps ==
    \/ LiveFeed
    \/ LiveStartCheck \/ LiveStartReconfigure \/ LiveStartActivate
    \/ LiveStopClear \/ LiveStopReconfigure \/ LiveStopReturn
    \/ LiveUpdateCheck \/ LiveUpdateStore \/ LiveUpdateReconfigure
    \/ LiveUpdateReturn
    \/ LiveRaise \/ LiveRespond
    \/ ReconfigureLock(LiveThread) \/ ReconfigureStop(LiveThread)
    \/ ReconfigureApply(LiveThread) \/ ReconfigureStart(LiveThread)
    \/ ReconfigureStore(LiveThread)

\* The live routes, the lifespan and the preview loop.
LiveNext ==
    \/ CamStartHardware \/ CamStartThread
    \/ CamStopClearRunning \/ CamStopJoin \/ CamStopHardware \/ CamStopClose
    \/ PreviewWhile \/ PreviewCapture \/ PreviewLock \/ PreviewStore \/ PreviewSleep
    \/ LiveSteps

LiveSpec == Init /\ [][LiveNext]_vars

\* The live routes with every body that update_live_settings accepts, after
\* the startup of the lifespan.
UpdateNext ==
    \/ CamStartHardware \/ CamStartThread
    \/ LiveFeed
    \/ LiveStartCheck \/ LiveStartReconfigure \/ LiveStartActivate
    \/ LiveStopClear \/ LiveStopReconfigure \/ LiveStopReturn
    \/ LiveUpdateRequest \/ LiveUpdateStore \/ LiveUpdateReconfigure
    \/ LiveUpdateReturn
    \/ LiveRaise \/ LiveRespond
    \/ ReconfigureLock(LiveThread) \/ ReconfigureStop(LiveThread)
    \/ ReconfigureApply(LiveThread) \/ ReconfigureStart(LiveThread)
    \/ ReconfigureStore(LiveThread)

UpdateSpec == Init /\ [][UpdateNext]_vars

(***************************************************************************)
(* _live_detection_generator (live_detect.py 52-96), iterated by the       *)
(* thread that serves the streaming response of live_feed.                 *)
(***************************************************************************)
GenRunning(g) == cam_pc[g] \in {"lg_while", "mf_capture", "lg_detect", "lg_yield",
                                "lg_sleep"}

\* lines 105-108: the response of live_feed starts to be streamed, which runs
\* the generator to its first test
GenBegin(g) ==
    /\ cam_pc[LiveThread] = "done" /\ live_op = "feed"
    /\ cam_pc[g] = "unborn"
    /\ cam_pc' = [cam_pc EXCEPT ![LiveThread] = "idle", ![g] = "lg_while"]
    /\ cam_out' = [cam_out EXCEPT ![LiveThread] = "none"]
    /\ cam_arg' = [cam_arg EXCEPT ![LiveThread] = <<0, 0>>]
    /\ live_op' = "none"
    /\ live_key' = NoKey
    /\ UNCHANGED <<camAttrs, cam_ret, live_active, live_resolution, capSide>>

\* line 60, and lines 63 and 132-133: the test of the loop, then the call of
\* capture_main_frame_array, which raises when there is no camera
GenWhile(g) ==
    /\ cam_pc[g] = "lg_while"
    /\ CamGoto(g, IF ~live_active THEN "ended"
                  ELSE IF NotInitialized THEN "lg_sleep" ELSE "mf_capture")
    /\ UNCHANGED <<camAttrs, cam_arg, cam_out, cam_ret, liveVars, capSide>>

\* a generator that a failed frame pull ends
GenCaptureFatal(g) ==
    /\ cam_pc[g] = "mf_capture"
    /\ \/ hw_started /\ CamGoto(g, "lg_detect")
       \/ CamGoto(g, "ended")
    /\ UNCHANGED <<camAttrs, cam_arg, cam_out, cam_ret, liveVars, capSide>>

\* line 63 (camera.py 134): capture_array returns, or raises into line 93
GenCapture(g) ==
    /\ cam_pc[g] = "mf_capture"
    /\ \/ hw_started /\ CamGoto(g, "lg_detect")
       \/ CamGoto(g, "lg_sleep")
    /\ UNCHANGED <<camAttrs, cam_arg, cam_out, cam_ret, liveVars, capSide>>

\* lines 66-76: cvtColor, run_live_detection and imencode return, or one of
\* them raises into line 93
GenDetect(g) ==
    /\ cam_pc[g] = "lg_detect"
    /\ \E ok \in BOOLEAN : CamGoto(g, IF ok THEN "lg_yield" ELSE "lg_sleep")
    /\ UNCHANGED <<camAttrs, cam_arg, cam_out, cam_ret, liveVars, capSide>>

\* lines 78-91: the frame is taken by the response, and the loop goes on
GenYield(g) ==
    /\ cam_pc[g] = "lg_yield"
    /\ CamGoto(g, "lg_while")
    /\ UNCHANGED <<camAttrs, cam_arg, cam_out, cam_ret, liveVars, capSide>>

\* line 78: the viewer has gone and the response closes the generator at its
\* yield (GeneratorExit, which line 93 does not catch)
GenClose(g) ==
    /\ cam_pc[g] = "lg_yield"
    /\ CamGoto(g, "closed")
    /\ UNCHANGED <<camAttrs, cam_arg, cam_out, cam_ret, liveVars, capSide>>

\* lines 93-95: the exception is logged, time.sleep(0.5), and the loop goes on
GenSleep(g) ==
    /\ cam_pc[g] = "lg_sleep"
    /\ CamGoto(g, "lg_while")
    /\ UNCHANGED <<camAttrs, cam_arg, cam_out, cam_ret, liveVars, capSide>>

GenSteps(g) ==
    \/ GenWhile(g) \/ GenCapture(g) \/ GenDetect(g) \/ GenYield(g)
    \/ GenClose(g) \/ GenSleep(g)

\* The viewers of the live feed beside start_live and stop_live.
GenNext ==
    \/ CamStartHardware \/ CamStartThread
    \/ LiveFeed
    \/ LiveStartCheck \/ LiveStartReconfigure \/ LiveStartActivate
    \/ LiveStopClear \/ LiveStopReconfigure \/ LiveStopReturn
    \/ LiveRaise \/ LiveRespond
    \/ ReconfigureLock(LiveThread) \/ ReconfigureStop(LiveThread)
    \/ ReconfigureApply(LiveThread) \/ ReconfigureStart(LiveThread)
    \/ ReconfigureStore(LiveThread)
    \/ \E g \in GenThreads : GenBegin(g) \/ GenSteps(g)

\* A generator whose frames are taken, or whose viewer goes, keeps running.
GenFairness == \A g \in GenThreads : WF_vars(GenSteps(g))

GenSpec == Init /\ [][GenNext]_vars /\ GenFairness

(***************************************************************************)
(* The settings of CaptureManager (capture.py 42-57).                      *)
(***************************************************************************)
\* a clamp with no lower end
ClampConfidenceAbove(value) == Min(CONFIDENCE_MAX, value)
\* line 49
ClampConfidence(value) == Max(CONFIDENCE_MIN, Min(CONFIDENCE_MAX, value))
\* a clamp with no upper end
ClampSlicesBelow(value) == Max(SLICES_MIN, value)
\* line 57
ClampSlices(value) == Max(SLICES_MIN, Min(SLICES_MAX, value))

\* the confidence setter, lines 47-49
SetConfidenceTo(v) ==
    /\ conf_arg' = v
    /\ confidence' = ClampConfidence(v)
    /\ UNCHANGED <<capVars, now, pc, arg, outcome, end_time, join_target,
                   mid_run, camVars, det_args, slices, slices_arg, detection,
                   live_confidence, live_stopped>>

SetConfidence == \E v \in ConfidenceInputs : SetConfidenceTo(v)

\* the slices setter, lines 55-57
SetSlicesTo(n) ==
    /\ slices_arg' = n
    /\ slices' = ClampSlices(n)
    /\ UNCHANGED <<capVars, now, pc, arg, outcome, end_time, join_target,
                   mid_run, camVars, det_args, confidence, conf_arg, detection,
                   live_confidence, live_stopped>>

SetSlices == \E n \in SliceInputs : SetSlicesTo(n)

SettingsNext == SetConfidence \/ SetSlices
SettingsSpec == Init /\ [][SettingsNext]_vars

(***************************************************************************)
(* Automated runs and manual captures while the settings are changed.  The *)
(* settings route is served by the event loop between two other requests;  *)
(* the loop thread runs beside it.                                         *)
(***************************************************************************)
TunedConfidences == {DEFAULT_CONFIDENCE, 2 * DEFAULT_CONFIDENCE}
TunedSlices == {DEFAULT_SLICES, 2 * DEFAULT_SLICES}

\* update_settings (routes/settings.py 30-63) with a confidence, with a
\* slice count
TuneConfidence == pc[1] = "idle" /\ \E v \in TunedConfidences : SetConfidenceTo(v)
TuneSlices == pc[1] = "idle" /\ \E n \in TunedSlices : SetSlicesTo(n)

TuneNext ==
    \/ StartCheckWith(1, MIN_CAPTURE_INTERVAL, MaxCapturesArg)
    \/ StartBody(1) \/ ManualSteps(1) \/ Respond(1)
    \/ \E t \in LoopIds : LoopSteps(t)
    \/ \E t \in {1} \cup LoopIds : CaptureSteps(t)
    \/ TuneConfidence \/ TuneSlices
    \/ Tick

TuneSpec == Init /\ [][TuneNext]_vars

(***************************************************************************)
(* The settings are read when run_detection is called (line 191) and read  *)
(* again when the Detection row is built (lines 199-200), and the settings *)
(* route can be served between the two while a loop thread is inside       *)
(* run_detection.  Runs of the automated loop only, without manual         *)
(* captures.                                                               *)
(***************************************************************************)
RecordNext ==
    \/ StartCheckWith(1, MIN_CAPTURE_INTERVAL, MaxCapturesArg)
    \/ StartBody(1) \/ Respond(1)
    \/ \E t \in LoopIds : LoopSteps(t) \/ CaptureSteps(t)
    \/ TuneConfidence \/ TuneSlices
    \/ Tick

RecordSpec == Init /\ [][RecordNext]_vars

(***************************************************************************)
(* Properties of CameraManager.                                            *)
(***************************************************************************)

\* C1: at most one thread at a time is inside a hardware access: a preview
\* acquisition, capture_high_res, capture_main_frame_array, or the stop,
\* configure and start of reconfigure.
C1_HardwareExclusive == Cardinality({t \in CamThreads : OnHardware(t)}) <= 1

(***************************************************************************)
(* Properties of CaptureManager.                                           *)
(***************************************************************************)

\* C2: of the manual_capture calls that run concurrently, at most one passes
\* the cooldown test and runs _do_capture.
C2_OneManualCapturePasses == Cardinality({c \in Callers : InCapture(c)}) <= 1

\* C3: no _do_capture is entered, and none completes, less than the minimum
\* cooldown after the completion of the most recent successful capture.
C3_SharedCooldown ==
    [][\A t \in Threads :
          /\ (pc[t] = "cap_begin" /\ pc'[t] = "cap_work")
                => now - last_capture_time >= MIN_CAPTURE_INTERVAL
          /\ (pc[t] = "cap_commit" /\ pc'[t] = "cap_finally_ok")
                => now - last_capture_time >= MIN_CAPTURE_INTERVAL]_vars

\* C4: a manual_capture whose cooldown test is made less than the minimum
\* cooldown after the last capture raises the cooldown error, enters no
\* _do_capture and leaves every attribute of the manager as it was.
C4_CooldownRejects ==
    [][\A c \in Callers :
          (/\ pc[c] = "mc_cool"
           /\ pc'[c] # "mc_cool"
           /\ now - last_capture_time < MIN_CAPTURE_INTERVAL)
          => (/\ pc'[c] = "done"
              /\ outcome'[c] = "CooldownActive"
              /\ UNCHANGED capVars)]_vars
C4_Witness ==
    \E c \in Callers :
       /\ pc[c] = "done" /\ outcome[c] = "CooldownActive"
       /\ last_capture_time > 0 /\ mode = "manual" /\ ~auto_running

\* C5: a manual_capture called while mode is "automated" raises the mode
\* conflict error; it never goes on to the cooldown test.
C5_ModeConflictWhileAutomated ==
    [][\A c \in Callers :
          ~(pc[c] = "idle" /\ mode = "automated" /\ pc'[c] = "mc_cool")]_vars

\* C6: start_automated with interval below the minimum cooldown or with
\* max_captures below 1 raises the argument error, changes no attribute of
\* the manager and constructs or starts no thread.
C6_InvalidArgumentRejects ==
    [][\A c \in Callers :
          (/\ pc[c] = "idle"
           /\ arg'[c] # NoArg
           /\ (arg'[c].interval < MIN_CAPTURE_INTERVAL \/ arg'[c].max_captures < 1))
          => (/\ pc'[c] = "done"
              /\ outcome'[c] = "InvalidArgument"
              /\ UNCHANGED capVars
              /\ \A t \in LoopIds : pc'[t] = pc[t])]_vars
C6_Witness ==
    \E c \in Callers :
       /\ pc[c] = "done" /\ outcome[c] = "InvalidArgument"
       /\ arg[c].interval >= MIN_CAPTURE_INTERVAL /\ arg[c].max_captures < 1
       /\ mode = "automated" /\ auto_running

\* C7: start_automated with valid arguments, called while mode is
\* "automated", raises the already-running error and leaves the run as it
\* is; and of two calls running concurrently only one passes the test.
C7_AlreadyRunningRejects ==
    [][\A c \in Callers :
          (/\ pc[c] = "idle"
           /\ arg'[c] # NoArg
           /\ ~(arg'[c].interval < MIN_CAPTURE_INTERVAL \/ arg'[c].max_captures < 1))
          => (/\ (mode = "automated")
                   => (/\ outcome'[c] = "AlreadyRunning"
                       /\ UNCHANGED <<auto_interval, auto_max_captures,
                                      auto_captures_done>>)
              /\ (pc'[c] = "sa_mode")
                   => \A d \in Callers \ {c} :
                         pc[d] \notin {"sa_mode", "sa_interval", "sa_max", "sa_done",
                                       "sa_running", "sa_thread", "sa_start"})]_vars

\* C8: at most one thread is running _automated_loop.
C8_OneLoopThread == Cardinality(AliveLoops) <= 1

\* C9: without a stop_automated, an automated run whose captures succeed at
\* some time comes to its end, and there auto_captures_done equals
\* auto_max_captures, auto_running is false and mode is "manual".
RunCompleted ==
    /\ AliveLoops = {}
    /\ auto_captures_done = auto_max_captures
    /\ ~auto_running
    /\ mode = "manual"
C9_RunCompletes == (AliveLoops # {}) ~> RunCompleted
C9_Witness ==
    /\ RunCompleted /\ auto_max_captures = MaxCapturesArg
    /\ pc[11] = "dead" /\ pc[12] = "unborn"

\* C10: a stop_automated issued during a run has set mode to "manual" when it
\* returns, and auto_captures_done is then at most auto_max_captures.
C10_StopReturnsManual ==
    \A c \in Callers :
       (pc[c] = "done" /\ outcome[c] = "stopped" /\ mid_run[c])
          => (mode = "manual" /\ auto_captures_done <= auto_max_captures)

\* C11: is_processing is false whenever no thread is inside _do_capture:
\* before a capture, and after it has returned or raised.
C11_ProcessingOnlyInCapture ==
    (\A t \in Threads : ~InCapture(t)) => ~is_processing
C11_Witness ==
    /\ \E c \in Callers : pc[c] = "done" /\ outcome[c] = "CaptureFailed"
    /\ \A t \in Threads : ~InCapture(t)
    /\ ~is_processing

\* C12: a reconfigure asked for the size that is stored returns at once: it
\* takes no lock, makes no hardware stop, configure or start, and leaves the
\* stored size as it is.
C12_SameSizeNoOp ==
    [][\A t \in CamCallers :
          (/\ cam_arg[t] = <<0, 0>> /\ cam_arg'[t] # <<0, 0>>
           /\ camera
           /\ cam_arg'[t] = <<main_width, main_height>>)
          => (/\ cam_pc'[t] = "done"
              /\ cam_out'[t] = "unchanged"
              /\ UNCHANGED <<camera, cam_lock, hw_started, hw_size,
                             main_width, main_height>>)]_vars
C12_Witness ==
    \E t \in CamCallers :
       /\ cam_pc[t] = "done" /\ cam_out[t] = "unchanged"
       /\ cam_arg[t] = <<main_width, main_height>>
       /\ main_width # CAPTURE_WIDTH

\* C18: get_preview_frame raises nothing and returns the stored frame; the
\* stored frame is empty at first, changes only when the preview loop stores
\* a frame it has acquired, and stays as it is when an acquisition fails.
C18_PreviewLatestFrame ==
    /\ frame = 0
    /\ [][/\ \A t \in CamCallers :
               (cam_pc[t] = "gp_read" /\ cam_pc'[t] # "gp_read")
               => (cam_pc'[t] = "done" /\ cam_out'[t] = "frame"
                   /\ cam_ret'[t] = frame)
          /\ (frame' # frame)
               => (cam_pc[PreviewThread] = "pv_store" /\ frame' = buf
                   /\ buf \in FrameData)
          /\ (cam_pc[PreviewThread] = "pv_capture"
               /\ cam_pc'[PreviewThread] = "pv_sleep") => frame' = frame]_vars
C18_Witness ==
    \E t \in CamCallers :
       /\ cam_pc[t] = "done" /\ cam_out[t] = "frame"
       /\ cam_ret[t] \in FrameData /\ cam_ret[t] = frame
       /\ buf \in FrameData /\ buf # frame

\* C19: capture_high_res, capture_main_frame_array and reconfigure, called
\* while there is no camera handle (before start, after stop), raise the
\* not-initialized error and change nothing.
C19_NotInitializedRejects ==
    [][\A t \in CamClients :
          (/\ cam_pc[t] = "idle"
           /\ cam_pc'[t] \notin {"idle", "gp_read"}
           /\ ~camera)
          => (/\ cam_pc'[t] = "done"
              /\ cam_out'[t] = "NotInitialized"
              /\ UNCHANGED <<camera, cam_lock, frame, cam_running, cam_thread,
                             main_width, main_height, hw_started, hw_size,
                             buf>>)]_vars
C19_Witness ==
    /\ cam_pc[MainThread] = "stopped" /\ ~camera
    /\ \E t \in CamClients :
          /\ cam_pc[t] = "done" /\ cam_out[t] = "NotInitialized"
          /\ cam_arg[t] = <<0, 0>>
    /\ \E t \in CamClients :
          /\ cam_pc[t] = "done" /\ cam_out[t] = "NotInitialized"
          /\ cam_arg[t] # <<0, 0>>

(***************************************************************************)
(* Properties of the live session.                                         *)
(***************************************************************************)

\* C13: start_live called while active is true changes nothing and calls no
\* reconfigure; called while active is false it calls reconfigure with the
\* preset of the stored resolution key, active staying false meanwhile, and
\* sets active to true after reconfigure has returned.
C13_StartIdempotent ==
    [][/\ (cam_pc[LiveThread] = "idle" /\ live_active
           /\ live_op' \in {"start", "AlreadyActive"})
          => (/\ live_op' = "AlreadyActive"
              /\ cam_pc'[LiveThread] = "done"
              /\ UNCHANGED <<camAttrs, cam_arg, live_active, live_resolution>>)
       /\ (live_op = "start" /\ live_op' = "started")
          => (/\ ~live_active /\ live_active'
              /\ cam_arg[LiveThread] = RESOLUTION_PRESETS[live_resolution]
              /\ <<main_width, main_height>> = RESOLUTION_PRESETS[live_resolution])
      ]_vars
C13_Witness ==
    /\ cam_pc[LiveThread] = "done" /\ live_op = "AlreadyActive" /\ live_active
    /\ <<main_width, main_height>> = RESOLUTION_PRESETS[live_resolution]
    /\ hw_size = RESOLUTION_PRESETS[live_resolution] /\ hw_started

\* C14: when stop_live has returned, active is false and the stored main
\* size is the still-capture size.
C14_StopRestoresCapture ==
    (cam_pc[LiveThread] = "done" /\ live_op = "stopped")
       => (~live_active /\ <<main_width, main_height>> = CaptureSize)
C14_Witness ==
    /\ cam_pc[LiveThread] = "done" /\ live_op = "stopped"
    /\ cam_out[LiveThread] = "reconfigured"
    /\ ~live_active /\ hw_size = CaptureSize /\ hw_started

\* C15: the stored resolution key is always one of the presets, and
\* update_live_settings with a key that is no preset answers with the error,
\* stores nothing and calls no reconfigure.
C15_InvalidResolutionRejects ==
    /\ [](live_resolution \in DOMAIN RESOLUTION_PRESETS)
    /\ [][(/\ cam_pc[LiveThread] = "idle"
           /\ live_key' # NoKey
           /\ live_key' \notin DOMAIN RESOLUTION_PRESETS)
          => (/\ cam_pc'[LiveThread] = "done"
              /\ live_op' = "InvalidResolution"
              /\ UNCHANGED <<camAttrs, cam_arg, cam_out, live_active,
                             live_resolution>>)]_vars
C15_Witness ==
    /\ cam_pc[LiveThread] = "done" /\ live_op = "InvalidResolution"
    /\ live_key \notin DOMAIN RESOLUTION_PRESETS
    /\ live_active /\ live_resolution # DEFAULT_LIVE_RESOLUTION

\* C16: when update_live_settings with a preset key ends, the key is stored;
\* if the session is active reconfigure was called with the sizes of that
\* preset, and if it is not active no reconfigure was called.
C16_UpdateReconfiguresIfActive ==
    (/\ cam_pc[LiveThread] = "done"
     /\ live_op \in {"updated", "raised"}
     /\ live_key \in DOMAIN RESOLUTION_PRESETS)
       => (/\ live_resolution = live_key
           /\ IF live_active
              THEN /\ cam_arg[LiveThread] = RESOLUTION_PRESETS[live_key]
                   /\ cam_out[LiveThread] # "none"
              ELSE /\ cam_arg[LiveThread] = <<0, 0>>
                   /\ cam_out[LiveThread] = "none")
C16_Witness ==
    /\ cam_pc[LiveThread] = "done" /\ live_op = "updated" /\ live_active
    /\ live_key \in DOMAIN RESOLUTION_PRESETS
    /\ cam_out[LiveThread] = "reconfigured"
    /\ hw_size = RESOLUTION_PRESETS[live_key]

(***************************************************************************)
(* Properties of the settings.                                             *)
(***************************************************************************)

\* C20: the confidence stored is the value given to the setter brought into
\* [0.01, 1.0]: 0 is stored as 0.01 and 5 as 1.0; the stored value is always
\* in that range.
C20_ConfidenceClamped ==
    /\ confidence >= 10 /\ confidence <= 1000
    /\ confidence = (IF conf_arg < 10 THEN 10
                     ELSE IF conf_arg > 1000 THEN 1000 ELSE conf_arg)
    /\ (conf_arg = 0) => confidence = 10
    /\ (conf_arg = 5000) => confidence = 1000
C20_Witness == conf_arg = 0 /\ confidence = CONFIDENCE_MIN /\ slices = SLICES_MAX

(***************************************************************************)
(* Properties of the run followed on the clock.                            *)
(***************************************************************************)

\* C17: in the run started at BootTime with interval 45 and max_captures
\* ScenarioMax, the captures complete at BootTime, BootTime + 45, ... (the
\* first one without a wait), and when the loop has ended
\* auto_captures_done is ScenarioMax and mode is "manual".
C17_RunTimeline ==
    /\ \A t \in LoopIds :
          pc[t] = "cap_finally_ok"
          => (/\ now = BootTime + auto_captures_done * MIN_CAPTURE_INTERVAL
              /\ last_capture_time = now)
    /\ \A t \in LoopIds :
          pc[t] = "dead"
          => (/\ auto_captures_done = ScenarioMax
              /\ mode = "manual" /\ ~auto_running)
C17_Witness ==
    /\ pc[11] = "dead" /\ now = ScenarioEnd
    /\ auto_captures_done = ScenarioMax /\ auto_max_captures = ScenarioMax
    /\ auto_interval = MIN_CAPTURE_INTERVAL /\ mode = "manual"

\* C21: the slice count stored is the value given to the setter brought into
\* [1, 8]: 0 is stored as 1 and 20 as 8; the stored value is always in that
\* range.
C21_SlicesClamped ==
    /\ slices >= 1 /\ slices <= 8
    /\ slices = (IF slices_arg < 1 THEN 1
                 ELSE IF slices_arg > 8 THEN 8 ELSE slices_arg)
    /\ (slices_arg = 0) => slices = 1
    /\ (slices_arg = 20) => slices = 8
C21_Witness == slices_arg = 20 /\ slices = SLICES_MAX /\ conf_arg = 5000

\* C22: _last_capture_time and _last_result are written only by the step that
\* ends a successful _do_capture, and the time written is the clock at that
\* step, after the camera, detection and database calls.  A _do_capture whose
\* calls fail leaves both as they were, and the failure reaches the caller:
\* manual_capture raises it, the automated loop goes to its error sleep.
\* (A step of the clock only moves the origin of the stored readings.)
C22_ResultOnlyOnSuccess ==
    [][ /\ \/ LET shift == Max(0, now + TickStep - MaxTime) IN
              /\ pc' = pc /\ now' = now + TickStep - shift
              /\ last_capture_time' = Rebase(last_capture_time, shift)
              /\ last_result' = Rebase(last_result, shift)
           \/ /\ now' = now
              /\ (last_capture_time' # last_capture_time
                    \/ last_result' # last_result)
                 => \E t \in Threads :
                       /\ pc[t] = "cap_commit" /\ pc'[t] = "cap_finally_ok"
                       /\ last_capture_time' = now /\ last_result' = now
        /\ \A t \in Threads :
              (pc[t] \in {"cap_work", "cap_detect", "cap_save", "cap_finally_err"}
                 /\ pc'[t] # pc[t]
                 /\ pc'[t] \notin {"cap_detect", "cap_save", "cap_commit"})
              => /\ UNCHANGED <<last_capture_time, last_result>>
                 /\ pc[t] \in {"cap_work", "cap_detect", "cap_save"}
                       => pc'[t] = "cap_finally_err"
                 /\ (pc[t] = "cap_finally_err" /\ t \in Callers)
                       => (pc'[t] = "done" /\ outcome'[t] = "CaptureFailed")
                 /\ (pc[t] = "cap_finally_err" /\ t \in LoopIds)
                       => pc'[t] = "lp_sleep"
      ]_vars
C22_Witness ==
    /\ pc[1] = "done" /\ outcome[1] = "CaptureFailed"
    /\ last_capture_time > 0 /\ last_capture_time < now
    /\ last_result = last_capture_time

\* C23: a capture that fails inside the automated loop leaves auto_running,
\* mode and auto_captures_done as they are and sends the loop to its error
\* sleep and from there back to the test of the loop; a run that nobody stops
\* then comes to attempt another capture.
C23_FailureKeepsRun ==
    /\ [][ \A t \in LoopIds :
             /\ (pc[t] = "cap_finally_err" /\ pc'[t] # pc[t])
                   => /\ pc'[t] = "lp_sleep"
                      /\ UNCHANGED <<auto_running, mode, auto_captures_done>>
             /\ (pc[t] = "lp_sleep" /\ pc'[t] # pc[t])
                   => /\ pc'[t] = "lp_while"
                      /\ UNCHANGED <<auto_running, mode, auto_captures_done>>
          ]_vars
    /\ \A t \in LoopIds : (pc[t] = "lp_sleep") ~> (pc[t] = "cap_begin")
C23_Witness ==
    /\ pc[11] = "lp_sleep" /\ auto_running /\ mode = "automated"
    /\ auto_captures_done = 1 /\ auto_max_captures = MaxCapturesArg

\* C24: a loop that is in its wait when auto_running is false makes no other
\* step than leaving the loop, and it does so before the clock moves and
\* before auto_running is true again: a waiting loop never misses a stop.
C24_StopHonouredInWait ==
    [][ \A t \in LoopIds :
          (pc[t] = "lp_wait" /\ ~auto_running)
             => \/ pc'[t] = "lp_exit"
                \/ pc'[t] = "lp_wait" /\ ~auto_running' /\ now' = now
      ]_vars

\* C25: the preview loop ends only at its test, on finding _running false or
\* no camera, and stop() has then been called: no failed capture_file ends
\* it.  When from some time on the hardware stays started and stop() is not
\* called, the loop stores frames again and again.
StopCalled == cam_pc[MainThread] \in {"cx_join", "cx_hw", "cx_close", "stopped",
                                     "stop_failed"}
C25_PreviewSurvivesFailures ==
    /\ [][ (cam_pc'[PreviewThread] = "dead" /\ cam_pc[PreviewThread] # "dead")
             => /\ cam_pc[PreviewThread] = "pv_while"
                /\ ~cam_running \/ ~camera
                /\ StopCalled
          ]_vars
    /\ <>[](hw_started /\ cam_pc[MainThread] = "started")
          => []<>(cam_pc[PreviewThread] = "pv_store")
C25_Witness ==
    /\ cam_pc[PreviewThread] = "pv_sleep" /\ buf = 0 /\ frame # 0
    /\ cam_pc[MainThread] = "started" /\ cam_pc[21] = "rc_apply"

\* C26: the lock of the preview buffer is never held by a thread that is in a
\* hardware call, so that get_preview_frame never waits for the hardware.
C26_ReaderNeverWaitsOnHardware ==
    \A t \in CamThreads : cam_lock = t => ~OnHardware(t)

\* C27: stop() ends in every lifecycle state, also before start() and after
\* a start() that failed part-way with the handle kept, with _running false
\* and the camera handle released, and it raises for no missing thread and
\* no missing handle.  A start() whose hardware initialization failed has
\* launched no preview thread.
C27_StopSafeEverywhere ==
    /\ cam_pc[MainThread] \in {"stopped", "stop_failed"}
          => (~cam_running /\ ~camera)
    /\ cam_thread = NoThread => cam_pc[PreviewThread] = "unborn"
    /\ cam_pc[MainThread] = "start_failed"
          => (cam_thread = NoThread /\ ~cam_running /\ ~hw_started)

\* C28: the confidence and the slice count that a _do_capture gives to
\* run_detection are the ones stored at that moment, in a manual capture and
\* in every capture of an automated run, whatever they were when the run was
\* started.  (A _do_capture whose camera call raises gives it nothing.)
C28_SettingsReadAtUse ==
    [][ \A t \in Threads :
          /\ (pc[t] = "cap_work" /\ pc'[t] = "cap_detect")
                => det_args'[t] = <<confidence, slices>>
          /\ (pc[t] = "cap_work" /\ pc'[t] = "cap_finally_err")
                => det_args'[t] = NoDetection
          /\ pc[t] \in {"cap_detect", "cap_save"} => det_args'[t] = det_args[t]
      ]_vars
C28_Witness ==
    \E t \in LoopIds :
       /\ pc[t] = "cap_commit" /\ auto_captures_done = 1
       /\ det_args[t] = <<2 * DEFAULT_CONFIDENCE, 2 * DEFAULT_SLICES>>

\* C29: once the camera is configured, the sizes of the main and of the
\* preview stream are positive and the preview has no more pixels than the
\* main stream; the stored main size is positive; and a later configuration
\* differs from the one before in the main size only.
Pixels(size) == size[1] * size[2]
C29_StreamSpecInvariant ==
    /\ [](/\ main_width > 0 /\ main_height > 0
          /\ hw_config # NoConfig
                => /\ hw_config.main[1] > 0 /\ hw_config.main[2] > 0
                   /\ hw_config.lores[1] > 0 /\ hw_config.lores[2] > 0
                   /\ Pixels(hw_config.lores) <= Pixels(hw_config.main)
                   /\ hw_config.main = hw_size)
    /\ [][ hw_config # NoConfig
             => hw_config' = [hw_config EXCEPT !.main = hw_config'.main]
          ]_vars
C29_Witness ==
    /\ hw_config.main = <<640, 480>> /\ hw_config.lores = <<640, 480>>
    /\ main_width = 640 /\ live_active

\* C30: a frame loop ends itself only at its test, on finding active false;
\* after a failed frame pull, detection or encoding it sleeps and returns to
\* its test.  When from some time on active stays false, from some time on no
\* frame loop is running.
C30_FrameLoopEndsOnlyInactive ==
    /\ [][ \A g \in GenThreads :
             /\ (cam_pc'[g] = "ended" /\ cam_pc[g] # "ended")
                   => (cam_pc[g] = "lg_while" /\ ~live_active)
             /\ (cam_pc[g] \in {"mf_capture", "lg_detect"} /\ cam_pc'[g] # cam_pc[g])
                   => cam_pc'[g] \in {"lg_detect", "lg_yield", "lg_sleep"}
             /\ (cam_pc[g] = "lg_sleep" /\ cam_pc'[g] # cam_pc[g])
                   => cam_pc'[g] = "lg_while"
          ]_vars
    /\ <>[](~live_active) => <>[](\A g \in GenThreads : ~GenRunning(g))
C30_Witness ==
    /\ cam_pc[25] = "ended" /\ cam_pc[26] = "lg_sleep" /\ ~live_active
    /\ cam_pc[LiveThread] = "rc_start"


(***************************************************************************)
(* Concurrent captures and the processing flag.                            *)
(***************************************************************************)

\* a thread past line 186 of _do_capture and before its finally clause has run
Capturing(t) == pc[t] \in {"cap_work", "cap_detect", "cap_save", "cap_commit",
                           "cap_finally_ok", "cap_finally_err"}

\* C31: while any thread is executing _do_capture, between the setting of the
\* flag at its start and its return or failure, is_processing is true: the
\* end of one capture never clears the flag while another is in progress.
C31_ProcessingWhileCapturing ==
    (\E t \in Threads : Capturing(t)) => is_processing

\* C32: in every state where the running flag is set the mode is "automated",
\* under any interleaving of start_automated, stop_automated and the end of
\* the loop.
C32_RunningImpliesAutomated == auto_running => mode = "automated"

\* a start_automated past line 124 (the mode of its run is written) and not
\* yet past line 128
RunBegun(c) == pc[c] \in {"sa_interval", "sa_max", "sa_done", "sa_running"}

\* C33: a run that was started is ended only by its own completion or by a
\* stop_automated issued after its start: a loop thread that executes the
\* exit of _automated_loop clears the running flag only when the captures
\* asked for are done (a stop has cleared it already otherwise), and resets
\* the mode only while the flag is clear, so the exit of the thread of an
\* earlier run changes nothing of a newer run.
C33_ExitEndsOwnRunOnly ==
    [][\A t \in LoopIds :
          /\ (pc[t] = "lp_exit" /\ pc'[t] # pc[t] /\ auto_running)
                => auto_captures_done >= auto_max_captures
          /\ (pc[t] = "lp_exit_mode" /\ pc'[t] # pc[t])
                => (~auto_running /\ \A c \in Callers : ~RunBegun(c))]_vars

\* C34: in every state with mode "automated", outside the assignments of
\* start_automated that set the run up (lines 124-127), the count of captures
\* done lies between 0 and the count asked for, so the auto_remaining of
\* get_status (line 82) is never negative.
C34_DoneWithinMax ==
    (mode = "automated" /\ \A c \in Callers : ~RunBegun(c))
        => (0 <= auto_captures_done /\ auto_captures_done <= auto_max_captures)

\* C35: the confidence_threshold and the slice_count of every Detection row
\* committed by a _do_capture are the confidence and the slice count that the
\* same _do_capture gave to run_detection, also when the setters are called
\* while the capture is in progress.
C35_RecordMatchesDetection ==
    \A t \in Threads :
       pc[t] \in {"cap_commit", "cap_finally_ok"} => detection[t] = det_args[t]

(***************************************************************************)
(* The live session and the resolution of the camera.                      *)
(***************************************************************************)

\* C36: once stop_live has been called, whenever the session is not active
\* and no live route is in progress, the stored main size of the camera is
\* the still-capture size.
C36_InactiveAtCaptureSize ==
    (live_stopped /\ ~live_active /\ cam_pc[LiveThread] = "idle")
       => <<main_width, main_height>> = CaptureSize

\* C37: whenever the session is active and no live route is in progress, the
\* stored main size of the camera is the size of the preset of the stored
\* resolution key: start_live and live_feed have both reconfigured to it.
C37_ActiveAtPresetSize ==
    (live_active /\ cam_pc[LiveThread] = "idle")
       => <<main_width, main_height>> = RESOLUTION_PRESETS[live_resolution]

\* C38: an update_live_settings that answers with the error for a resolution
\* key that is no preset leaves active, confidence and resolution as they
\* were, also when its body held a valid confidence.
C38_RejectedUpdateChangesNothing ==
    [][(/\ cam_pc[LiveThread] = "idle"
        /\ cam_pc'[LiveThread] = "done"
        /\ live_op' = "InvalidResolution")
          => UNCHANGED <<live_active, live_confidence, live_resolution>>]_vars

(***************************************************************************)
(* The stored stream sizes and the hardware after a failed reconfigure.    *)
(***************************************************************************)

\* C39: between start() and stop(), whenever the lock of CameraManager is
\* free, the stored main size is the main size last configured on the
\* hardware and the hardware is started: a reconfigure that fails releases
\* the lock without leaving the two apart.
C39_StoredSizeIsHardwareSize ==
    (cam_pc[MainThread] = "started" /\ camera /\ cam_lock = NoThread)
       => (hw_size = <<main_width, main_height>> /\ hw_started)
====
